---- MODULE Spec2Model ----
(***************************************************************************)
(* Model of the flashcard platform's sync protocol: the desktop sync       *)
(* engine (apps/desktop/src-tauri/src/sync/mod.rs), the Tauri commands     *)
(* that drive it (commands/sync.rs, commands/study.rs), the local SQLite   *)
(* repository (db/repository.rs) and the backend's sync endpoints          *)
(* (apps/backend/src/routes/sync.rs, services/sync.rs, db/mod.rs).         *)
(*                                                                         *)
(* Conventions.                                                            *)
(*  - A markdown file's content is [lines, nl]: the sequence str::lines()  *)
(*    yields and whether the text ends with '\n'.  A line is [k, n, s]:    *)
(*    k is the recognised prefix ("ID", "Q", "A") or "T" for any other     *)
(*    line, n the integer an "ID:" body parses to (0 when the body is      *)
(*    empty), s the trimmed body text ("bad" on an ID line: a body that    *)
(*    does not parse as i64).                                              *)
(*  - Option::None of an integer/timestamp is 0 (NoId, NoTime); server     *)
(*    ids and clock values start at 1.                                     *)
(*  - A multi-line field text is the sequence of its lines; the empty     *)
(*    String is << >>.                                                     *)
(*  - Every .await of the engine is an interleaving point: one action per  *)
(*    stretch of code between two awaits on a lock or an HTTP response.    *)
(*  - An HTTP request is handled atomically by the server.                 *)
(*  - A local of a command is reset once the code reads it no more.        *)
(***************************************************************************)
EXTENDS Integers, Sequences, FiniteSets, TLC

\* ---------------------------------------------------------------- bounds
NumTasks == 2
MaxReviews == 2
MaxSeq == 2
MaxClock == 2
MaxBlocks == 2
MaxCoreBlocks == 3
MaxLines == 3
MaxAssign == 2
MaxCardReviews == 8
MaxInterval == 100000
MaxStored == 2
MaxLocalCards == 3

NoId == 0
NoTime == 0

Tasks == 1..NumTasks
Engines == 1..NumTasks

\* ------------------------------------------------------- markdown content
IdLine(n) == [k |-> "ID", n |-> n, s |-> ""]
QLine(s) == [k |-> "Q", n |-> 0, s |-> s]
ALine(s) == [k |-> "A", n |-> 0, s |-> s]
TLine(s) == [k |-> "T", n |-> 0, s |-> s]

Content(ls, nl) == [lines |-> ls, nl |-> nl]

\* String::trim on a field buffer: trailing empty lines go (a buffer never
\* starts with an empty line, see PushLine)
RECURSIVE Trim(_)
Trim(buf) ==
    IF buf = << >> THEN << >>
    ELSE IF buf[Len(buf)] = "" THEN Trim(SubSeq(buf, 1, Len(buf) - 1))
    ELSE buf

\* field_buffer = trimmed.strip_prefix("Q:").unwrap().trim().to_string()
Body(s) == IF s = "" THEN << >> ELSE <<s>>

\* if !field_buffer.is_empty() { push('\n') }; push_str(line)
PushLine(buf, s) == IF buf = << >> THEN Body(s) ELSE Append(buf, s)

NoBuilder == [some |-> FALSE, id |-> NoId, question |-> << >>, answer |-> << >>, line |-> 0]
NewBuilder(id, line) == [some |-> TRUE, id |-> id, question |-> << >>, answer |-> << >>, line |-> line]

\* the field of the builder takes the content, unless the content is empty
SetField(field, content, builder) ==
    IF content = << >> THEN builder
    ELSE IF field = "Q" THEN [builder EXCEPT !.question = content]
    ELSE IF field = "A" THEN [builder EXCEPT !.answer = content]
    ELSE builder

flush_current_field(field, buf, builder) == SetField(field, Trim(buf), builder)

\* flush_field: the builder is consumed, the card kept only with both Q and A
Build(st, b) ==
    [st EXCEPT !.cards = IF b.question # << >> /\ b.answer # << >>
                         THEN Append(@, [id |-> b.id, question |-> b.question,
                                         answer |-> b.answer, line |-> b.line])
                         ELSE @,
               !.cur = NoBuilder, !.field = "None", !.buf = << >>]

flush_field(st) == Build(st, flush_current_field(st.field, st.buf, st.cur))

ParseInit == [cards |-> << >>, cur |-> NoBuilder, field |-> "None", buf |-> << >>, err |-> FALSE]

\* a faulty StartCard: the id of the ID line is dropped
StartCardNoId(st, line, line_num) ==
    IF line.s = "bad" THEN [st EXCEPT !.err = TRUE]
    ELSE [st EXCEPT !.cur = NewBuilder(NoId, line_num), !.field = "None", !.buf = << >>]

\* an ID line: the id is parsed (an error ends the parse) and a builder begun
StartCard(st, line, line_num) ==
    IF line.s = "bad" THEN [st EXCEPT !.err = TRUE]
    ELSE [st EXCEPT !.cur = NewBuilder(line.n, line_num), !.field = "None", !.buf = << >>]

ParseLine(st, line, line_num) ==
    IF st.err THEN st
    ELSE IF line.k = "ID" THEN
        StartCard(IF st.cur.some THEN flush_field(st) ELSE st, line, line_num)
    ELSE IF line.k = "Q" THEN
        LET cur1 == IF st.cur.some THEN st.cur ELSE NewBuilder(NoId, line_num) IN
        [st EXCEPT !.cur = flush_current_field(st.field, st.buf, cur1),
                   !.field = "Q", !.buf = Body(line.s)]
    ELSE IF line.k = "A" THEN
        [st EXCEPT !.cur = IF st.cur.some THEN flush_current_field(st.field, st.buf, st.cur) ELSE @,
                   !.field = "A", !.buf = Body(line.s)]
    ELSE IF st.field # "None" THEN [st EXCEPT !.buf = PushLine(@, line.s)]
    ELSE st

RECURSIVE ParseFrom(_, _, _)
ParseFrom(st, lines, i) ==
    IF i > Len(lines) THEN st ELSE ParseFrom(ParseLine(st, lines[i], i), lines, i + 1)

\* Result<ParsedMdFile, ApiError>
ParseResult(st) == [ok |-> ~st.err, cards |-> IF st.err THEN << >> ELSE st.cards]

\* "Don't forget the last card"
ParseEnd(st) == ParseResult(IF ~st.err /\ st.cur.some THEN flush_field(st) ELSE st)

parse_md_content(content) == ParseEnd(ParseFrom(ParseInit, content.lines, 1))

\* id_insertions: line -> id of the last assignment naming the line
InsertionAt(new_ids, line_num) ==
    LET hits == {j \in 1..Len(new_ids) : new_ids[j].line = line_num} IN
    IF hits = {} THEN NoId
    ELSE new_ids[CHOOSE j \in hits : \A h \in hits : h <= j].id

RECURSIVE InjectFrom(_, _, _)
InjectFrom(lines, new_ids, i) ==
    IF i > Len(lines) THEN << >>
    ELSE LET id == InsertionAt(new_ids, i)
             head == IF id # NoId THEN <<IdLine(id), lines[i]>> ELSE <<lines[i]>>
         IN head \o InjectFrom(lines, new_ids, i + 1)

regenerate_md_with_ids(content, new_ids) ==
    IF new_ids = << >> THEN content
    ELSE Content(InjectFrom(content.lines, new_ids, 1),
                 content.nl /\ content.lines # << >>)

\* extract_deck_path, with the file stem when the parent is empty
\* (a path is [dir, stem])
DeckPathOf(path) == IF path.dir = "" THEN path.stem ELSE path.dir

\* ------------------------------------------------------------ server store
Device == "A"

DbCard(dev, deck, q, a, src, now) ==
    [device_id |-> dev, deck_path |-> deck, question_text |-> q, answer_text |-> a,
     source_file |-> src, updated_at |-> now, deleted_at |-> NoTime]

\* INSERT ... ON CONFLICT (id) DO UPDATE: the owner of an existing row stays
upsert_card(cards, id, c, now) ==
    IF id \in DOMAIN cards
    THEN [cards EXCEPT ![id] = [@ EXCEPT !.deck_path = c.deck_path,
                                         !.question_text = c.question_text,
                                         !.answer_text = c.answer_text,
                                         !.source_file = c.source_file,
                                         !.updated_at = now,
                                         !.deleted_at = NoTime]]
    ELSE (id :> c) @@ cards

\* UPDATE cards SET deleted_at = NOW() WHERE id = ANY($1)
soft_delete_cards(cards, ids, now) ==
    [i \in DOMAIN cards |-> IF i \in ids THEN [cards[i] EXCEPT !.deleted_at = now] ELSE cards[i]]

get_orphaned_cards(cards, dev, current_card_ids) ==
    {[id |-> i, question_preview |-> cards[i].question_text] :
        i \in {j \in DOMAIN cards : /\ cards[j].device_id = dev
                                    /\ cards[j].deleted_at = NoTime
                                    /\ j \notin current_card_ids}}

\* nextval('card_id_seq')
get_next_card_id(seq) == seq + 1

SeqToSet(q) == {q[i] : i \in 1..Len(q)}

\* the per-card loop of upload: acc = [cards, seq, file_new_ids, all_card_ids]
RECURSIVE UploadCards(_, _, _, _, _, _)
UploadCards(acc, parsed, i, path, dev, now) ==
    IF i > Len(parsed) THEN acc
    ELSE LET card == parsed[i]
             fresh == card.id = NoId
             card_id == IF fresh THEN get_next_card_id(acc.seq) ELSE card.id
             db_card == DbCard(dev, DeckPathOf(path), card.question, card.answer, path, now)
         IN UploadCards(
              [cards |-> upsert_card(acc.cards, card_id, db_card, now),
               seq |-> IF fresh THEN card_id ELSE acc.seq,
               file_new_ids |-> IF fresh
                                THEN Append(acc.file_new_ids,
                                            [path |-> path, line |-> card.line, id |-> card_id])
                                ELSE acc.file_new_ids,
               all_card_ids |-> Append(acc.all_card_ids, card_id)],
              parsed, i + 1, path, dev, now)

\* the per-file loop of upload; a parse error ends the request with 400 and
\* keeps what the files before it stored
RECURSIVE UploadFiles(_, _, _, _, _)

\* the end of a file's turn: r is what its per-card loop left
FileDone(acc, files, i, dev, now, r) ==
    UploadFiles(
      [ok |-> TRUE, cards |-> r.cards, seq |-> r.seq,
       updated_files |->
           IF r.file_new_ids # << >>
           THEN Append(acc.updated_files,
                       [path |-> files[i].path,
                        content |-> regenerate_md_with_ids(files[i].content, r.file_new_ids)])
           ELSE acc.updated_files,
       new_ids |-> acc.new_ids \o r.file_new_ids,
       all_card_ids |-> r.all_card_ids],
      files, i + 1, dev, now)

\* a file's turn: parsed is the result of parse_md_content
UploadFile(acc, files, i, dev, now, parsed) ==
    IF ~parsed.ok THEN [acc EXCEPT !.ok = FALSE]
    ELSE FileDone(acc, files, i, dev, now,
                  UploadCards([cards |-> acc.cards, seq |-> acc.seq, file_new_ids |-> << >>,
                               all_card_ids |-> acc.all_card_ids],
                              parsed.cards, 1, files[i].path, dev, now))

UploadFiles(acc, files, i, dev, now) ==
    IF i > Len(files) \/ ~acc.ok THEN acc
    ELSE UploadFile(acc, files, i, dev, now, parse_md_content(files[i].content))

\* the response of upload: r is what the per-file loop left
UploadResponse(r, dev) ==
    [ok |-> r.ok, cards |-> r.cards, seq |-> r.seq,
     updated_files |-> IF r.ok THEN r.updated_files ELSE << >>,
     new_ids |-> IF r.ok THEN r.new_ids ELSE << >>,
     orphaned_cards |-> IF r.ok
                        THEN get_orphaned_cards(r.cards, dev, SeqToSet(r.all_card_ids))
                        ELSE {}]

\* POST /api/sync/upload: the store after the request and the response
upload(cards, seq, files, dev, now) ==
    UploadResponse(UploadFiles([ok |-> TRUE, cards |-> cards, seq |-> seq,
                                updated_files |-> << >>, new_ids |-> << >>,
                                all_card_ids |-> << >>], files, 1, dev, now), dev)

\* the ids of s in ascending order (ORDER BY id)
RECURSIVE SortedIds(_)
SortedIds(s) ==
    IF s = {} THEN << >>
    ELSE LET m == CHOOSE x \in s : \A y \in s : x <= y IN <<m>> \o SortedIds(s \ {m})

to_api_card(cards, i) ==
    [id |-> i, deck_path |-> cards[i].deck_path, question |-> cards[i].question_text,
     answer |-> cards[i].answer_text, source_file |-> cards[i].source_file,
     deleted_at |-> cards[i].deleted_at]

\* since = None: the non-deleted cards; otherwise those updated after it
get_cards_since(cards, dev, since) ==
    LET ids == {i \in DOMAIN cards :
                  /\ cards[i].device_id = dev
                  /\ IF since = NoTime THEN cards[i].deleted_at = NoTime
                     ELSE cards[i].updated_at > since}
        order == SortedIds(ids)
    IN [j \in 1..Len(order) |-> to_api_card(cards, order[j])]

\* ------------------------------------------------------------- local store
\* a faulty get_pending_reviews: the query with LIMIT 1
get_pending_reviews_limit1(reviews) ==
    IF SelectSeq(reviews, LAMBDA r : ~r.synced) = << >> THEN << >>
    ELSE <<Head(SelectSeq(reviews, LAMBDA r : ~r.synced))>>

\* get_pending_reviews: SELECT ... FROM pending_reviews WHERE synced = 0
get_pending_reviews(reviews) == SelectSeq(reviews, LAMBDA r : ~r.synced)

ReviewIds(batch) == {batch[i].id : i \in 1..Len(batch)}

\* UPDATE pending_reviews SET synced = 1 WHERE id IN (ids)
mark_reviews_synced(reviews, ids) ==
    [i \in 1..Len(reviews) |-> IF reviews[i].id \in ids
                               THEN [reviews[i] EXCEPT !.synced = TRUE] ELSE reviews[i]]

\* INSERT INTO pending_reviews (..., synced) VALUES (..., 0); AUTOINCREMENT id
insert_pending_review(reviews, card_id) ==
    Append(reviews, [id |-> Len(reviews) + 1, card_id |-> card_id, synced |-> FALSE])

\* UPDATE sync_state SET last_sync_at = ?1, pending_changes = 0
update_sync_state(st, last_sync_at) == [last_sync_at |-> last_sync_at, pending_changes |-> 0]

increment_pending_changes(st) == [st EXCEPT !.pending_changes = @ + 1]

\* INSERT OR REPLACE INTO cards, one statement per card: the first k cards
upsert_cards_from_sync(cards, pulled, k) ==
    LET ids == {pulled[j].id : j \in 1..k}
        row(i) == LET j == CHOOSE j \in 1..k : pulled[j].id = i
                  IN [deck_path |-> pulled[j].deck_path, question |-> pulled[j].question,
                      answer |-> pulled[j].answer, source_file |-> pulled[j].source_file,
                      deleted_at |-> pulled[j].deleted_at]
    IN [i \in DOMAIN cards \cup ids |-> IF i \in ids THEN row(i) ELSE cards[i]]

\* ------------------------------------------------------------- card state
\* Rating::to_value
Again == 1
Hard == 2
Good == 3
Easy == 4
Ratings == {Again, Good}
AllRatings == {Again, Hard, Good, Easy}

\* Sm2::default(), the f64 values in hundredths
initial_ease == 250
minimum_ease == 130
easy_bonus == 130
hard_multiplier == 120
graduating_interval == 100
easy_interval == 400

\* CardState::default(); of a CardState the model keeps status, interval_days
\* and ease_factor (in hundredths), lapses and reviews_count
DefaultState ==
    [status |-> "new", interval_days |-> 0, ease_factor |-> initial_ease, lapses |-> 0,
     reviews_count |-> 0]

\* a faulty f64::max: the floor is not applied
FFirst(a, b) == a

\* f64::max
FMax(a, b) == IF a >= b THEN a ELSE b

\* Sm2::schedule_learning: (new_status, new_interval, new_ease, new_lapses)
schedule_learning(state, rating) ==
    IF rating >= 3
    THEN [status |-> "review",
          interval_days |-> IF rating = 4 THEN easy_interval ELSE graduating_interval,
          ease_factor |-> state.ease_factor, lapses |-> state.lapses]
    ELSE [status |-> "learning", interval_days |-> 0, ease_factor |-> state.ease_factor,
          lapses |-> state.lapses]

\* schedule_review, rating above 1: ease_adj and multiplier
EaseAdj(rating) == IF rating = 2 THEN -15 ELSE IF rating = 4 THEN 15 ELSE 0

Multiplier(state, rating) ==
    IF rating = 2 THEN hard_multiplier
    ELSE IF rating = 4 THEN (state.ease_factor * easy_bonus) \div 100
    ELSE state.ease_factor

\* a faulty schedule_review: a lapse is not counted
schedule_review_uncounted(state, rating) ==
    IF rating = 1
    THEN [status |-> "relearning", interval_days |-> 100,
          ease_factor |-> FMax(state.ease_factor - 20, minimum_ease),
          lapses |-> state.lapses]
    ELSE [status |-> "review",
          interval_days |-> FMax((state.interval_days * Multiplier(state, rating)) \div 100, 100),
          ease_factor |-> FMax(state.ease_factor + EaseAdj(rating), minimum_ease),
          lapses |-> state.lapses]

\* Sm2::schedule_review: (new_status, new_interval, new_ease, new_lapses)
schedule_review(state, rating) ==
    IF rating = 1
    THEN [status |-> "relearning", interval_days |-> 100,
          ease_factor |-> FMax(state.ease_factor - 20, minimum_ease),
          lapses |-> state.lapses + 1]
    ELSE [status |-> "review",
          interval_days |-> FMax((state.interval_days * Multiplier(state, rating)) \div 100, 100),
          ease_factor |-> FMax(state.ease_factor + EaseAdj(rating), minimum_ease),
          lapses |-> state.lapses]

\* the new_state of the SchedulingResult, r being the tuple of the branch
NewState(state, r) ==
    [status |-> r.status, interval_days |-> r.interval_days, ease_factor |-> r.ease_factor,
     lapses |-> r.lapses, reviews_count |-> state.reviews_count + 1]

\* Sm2::schedule
schedule(state, rating) ==
    NewState(state, IF state.status \in {"new", "learning"}
                    THEN schedule_learning(state, rating)
                    ELSE schedule_review(state, rating))

\* get_card_state(card_id).unwrap_or_default()
get_card_state(states, card_id) ==
    IF card_id \in DOMAIN states THEN states[card_id] ELSE DefaultState

\* INSERT OR REPLACE INTO card_states
save_card_state(states, card_id, state) ==
    [i \in DOMAIN states \cup {card_id} |-> IF i = card_id THEN state ELSE states[i]]

\* save_card_states_synced: INSERT OR REPLACE, one statement per pulled state;
\* the first m statements
RECURSIVE save_card_states_synced(_, _, _)
save_card_states_synced(states, pulled, m) ==
    IF m = 0 THEN states
    ELSE save_card_state(save_card_states_synced(states, pulled, m - 1), pulled[m].card_id,
                         [status |-> pulled[m].status,
                          interval_days |-> pulled[m].interval_days,
                          ease_factor |-> pulled[m].ease_factor, lapses |-> pulled[m].lapses,
                          reviews_count |-> pulled[m].reviews_count])

\* upsert_card_state on the server: ON CONFLICT DO UPDATE .. updated_at = NOW()
upsert_card_state(states, card_id, state, now) ==
    [i \in DOMAIN states \cup {card_id} |->
        IF i = card_id
        THEN [status |-> state.status, interval_days |-> state.interval_days,
              ease_factor |-> state.ease_factor, lapses |-> state.lapses,
              reviews_count |-> state.reviews_count, updated_at |-> now]
        ELSE states[i]]

\* DbCardState::to_core_state_with_id
to_core_state_with_id(states, i) ==
    [card_id |-> i, status |-> states[i].status, interval_days |-> states[i].interval_days,
     ease_factor |-> states[i].ease_factor, lapses |-> states[i].lapses,
     reviews_count |-> states[i].reviews_count]

\* the rows of ids, in the order of order
StateRows(states, order) == [j \in 1..Len(order) |-> to_core_state_with_id(states, order[j])]

\* get_card_states_since: every state of the device when since is None,
\* otherwise those updated after it; ORDER BY card_id
get_card_states_since(states, since) ==
    StateRows(states, SortedIds({i \in DOMAIN states :
                                    since = NoTime \/ states[i].updated_at > since}))

\* ------------------------------------------------------------ sync engine
Idle == [type |-> "Idle", stage |-> "", orphans |-> {}, synced_at |-> NoTime, error |-> ""]
Syncing(stage) == [Idle EXCEPT !.type = "Syncing", !.stage = stage]
AwaitingOrphanConfirmation(orphans) ==
    [Idle EXCEPT !.type = "AwaitingOrphanConfirmation", !.orphans = orphans]
Completed(at) == [Idle EXCEPT !.type = "Completed", !.synced_at = at]
Failed(error) == [Idle EXCEPT !.type = "Failed", !.error = error]

\* the files of the watched directory, in directory order
PathList == <<[dir |-> "rust", stem |-> "a"]>>

F_NoId == Content(<<QLine("q1"), ALine("a1")>>, TRUE)
F_Id1 == Content(<<IdLine(1), QLine("q1"), ALine("a1")>>, TRUE)
FileContents == {F_NoId, F_Id1}

ReviewCards == {1}
HttpOutcomes == {"ok", "neterr", "status"}

\* push_reviews has one more: the server stored the reviews and answered 2xx
\* with a body that resp.json() cannot read
PushOutcomes == HttpOutcomes \cup {"parse"}

VARIABLES
    disk,                   \* content of each file of PathList
    engine,                 \* SyncEngineState.engine: 0 = None, else the engine
    status,                 \* SyncEngineInner.status, per engine
    pending_updated_files,  \* SyncEngineInner.pending_updated_files, per engine
    task,                   \* the running command invocations
    pending_reviews,        \* local table pending_reviews
    sync_state,             \* local table sync_state
    cards,                  \* local table cards
    srv_cards,              \* server table cards
    card_id_seq,            \* server sequence card_id_seq (last value)
    srv_reviews,            \* server table reviews: local review id -> rows
    acked,                  \* review ids carried by a push that returned 2xx
    clock,                  \* wall clock
    card_states,            \* local table card_states
    srv_card_states,        \* server table card_states (rows of the device)
    guard,                  \* each mutex of AppState and SyncEngineInner: holder and waiters
    thread,                 \* each command or watcher thread: position in its guard program
    probe                   \* the last request made of a function on its own

vars == <<disk, engine, status, pending_updated_files, task, pending_reviews,
          sync_state, cards, srv_cards, card_id_seq, srv_reviews, acked, clock,
          card_states, srv_card_states, guard, thread, probe>>

devVars == <<pending_reviews, sync_state, cards, card_states>>
srvVars == <<srv_cards, card_id_seq, srv_reviews, acked, srv_card_states>>
engVars == <<engine, status, pending_updated_files>>
lockVars == <<guard, thread>>

\* ---------------------------------------------------------------------
\* The guards of the desktop application and the order in which each
\* command takes them.  AppState.repository is a std::sync::Mutex; the
\* engine slot and the fields of SyncEngineInner are tokio::sync::Mutex,
\* which hands the guard to its waiters in the order of their requests.

StdGuards == {"repository"}
TokioGuards == {"engine", "status", "stats", "pending_updated_files"}
Guards == StdGuards \cup TokioGuards

Threads == {"sync", "study", "control", "watcher"}

NoHolder == "none"
NoGuards == [g \in Guards |-> [holder |-> NoHolder, queue |-> << >>]]
NoThreads == [th \in Threads |-> [cmd |-> "", pc |-> 0, waiting |-> FALSE]]

\* the steps of a guard program
Lock(g) == [op |-> "lock", guard |-> g, skip |-> 0]
Unlock(g) == [op |-> "unlock", guard |-> g, skip |-> 0]
Send == [op |-> "http", guard |-> "", skip |-> 0]
Skip(n) == [op |-> "skip", guard |-> "", skip |-> n]
Leave == [op |-> "return", guard |-> "", skip |-> 0]

\* a guard taken for one statement or one block without an await in it
Briefly(g) == <<Lock(g), Unlock(g)>>
\* `send().await ... ?`: the request, and the return on its error is
\* part of the step itself (Respond)
Request == <<Send>>
\* `if cond { part }`
Optional(part) == <<Skip(Len(part))>> \o part
\* `if cond { alt; return }`
OrElse(alt) == <<Skip(Len(alt) + 1)>> \o alt \o <<Leave>>

\* SyncEngine::set_status and SyncEngine::status
set_status_guard == Briefly("status")
\* a repository guard bound in the enclosing scope: kept until the return
repo_call_kept == <<Lock("repository")>>
\* the repository callbacks of start_sync and skip_orphan_deletion, and
\* get_device_token: the guard is taken alone, in a block without await
repo_call == Briefly("repository")

continue_sync_internal ==
    set_status_guard                                           \* PushingReviews
    \o repo_call                                               \* get_pending_reviews()
    \o Optional(Request \o repo_call \o Briefly("stats"))      \* push, mark_reviews_synced
    \o set_status_guard                                        \* PullingState
    \o repo_call                                               \* get_sync_state()
    \o Request                                                 \* pull_state
    \o Briefly("stats")
    \o set_status_guard                                        \* ApplyingChanges
    \o Optional(repo_call \o Briefly("stats"))                 \* apply_cards_from_sync
    \o Optional(repo_call)                                     \* apply_states_from_sync
    \o repo_call                                               \* apply_global_settings
    \o Optional(repo_call)                                     \* apply_deck_settings
    \o Optional(set_status_guard)                              \* WritingFiles
    \o repo_call                                               \* update_sync_state
    \o Briefly("stats")
    \o set_status_guard                                        \* Completed

\* SyncEngine::sync; `tail` is what the caller does with an Ok result
sync(tail) ==
    Briefly("status") \o OrElse(<< >>)                         \* AlreadyInProgress
    \o Briefly("stats")
    \o set_status_guard                                        \* Connecting
    \o Request                                                 \* check_connectivity
    \o OrElse(set_status_guard)                                \* Failed, not connected
    \o set_status_guard                                        \* UploadingFiles
    \o Request                                                 \* upload_files
    \o Briefly("stats")
    \o OrElse(Briefly("pending_updated_files") \o set_status_guard
              \o Briefly("stats") \o tail)                     \* AwaitingOrphanConfirmation
    \o continue_sync_internal
    \o tail

start_sync ==
    Briefly("engine")
    \o repo_call \o OrElse(<< >>)                              \* get_device_token
    \o sync(set_status_guard)                                  \* Ok(_) => engine.status()

get_sync_status ==
    <<Lock("engine")>> \o Optional(set_status_guard) \o <<Unlock("engine")>>

cancel_sync == Briefly("engine")

confirm_orphan_deletion ==
    Briefly("engine") \o OrElse(<< >>)                         \* No sync in progress
    \o repo_call \o OrElse(<< >>)                              \* get_device_token
    \o Request \o Briefly("stats")

skip_orphan_deletion ==
    Briefly("engine") \o OrElse(<< >>)
    \o repo_call \o OrElse(<< >>)
    \o Briefly("pending_updated_files")
    \o continue_sync_internal

\* commands/study.rs: the repository guard from the first statement to
\* the return
submit_review == repo_call

\* FileWatcher::handle_event: `if let Ok(repo) = repository.lock()`
handle_event == Optional(repo_call)

CommandNames == [sync |-> {"start_sync", "confirm_orphan_deletion", "skip_orphan_deletion"},
                 study |-> {"submit_review"},
                 control |-> {"get_sync_status", "cancel_sync"},
                 watcher |-> {"handle_event"}]

Program(cmd) ==
    CASE cmd = "start_sync" -> start_sync
      [] cmd = "confirm_orphan_deletion" -> confirm_orphan_deletion
      [] cmd = "skip_orphan_deletion" -> skip_orphan_deletion
      [] cmd = "submit_review" -> submit_review
      [] cmd = "get_sync_status" -> get_sync_status
      [] cmd = "cancel_sync" -> cancel_sync
      [] OTHER -> handle_event

IdleTask == [pc |-> "idle", cmd |-> "", eng |-> 0, files |-> << >>, updated_files |-> << >>,
             batch |-> << >>, last_sync |-> NoTime, pulled |-> << >>, pulled_states |-> << >>,
             apply_err |-> FALSE,
             synced_at |-> NoTime, card_ids |-> {}]

EmptyFn == [i \in {} |-> 0]

\* no request has been made
NoProbe == [op |-> "none"]

Init ==
    /\ disk = [i \in 1..Len(PathList) |-> F_NoId]
    /\ engine = 0
    /\ guard = NoGuards
    /\ thread = NoThreads
    /\ status = [e \in Engines |-> Idle]
    /\ pending_updated_files = [e \in Engines |-> << >>]
    /\ task = [t \in Tasks |-> IdleTask]
    /\ pending_reviews = << >>
    /\ sync_state = [last_sync_at |-> NoTime, pending_changes |-> 0]
    /\ cards = EmptyFn
    /\ srv_cards = EmptyFn
    /\ card_id_seq = 0
    /\ srv_reviews = [r \in 1..MaxReviews |-> 0]
    /\ acked = {}
    /\ clock = 1
    /\ card_states = EmptyFn
    /\ srv_card_states = EmptyFn
    /\ probe = NoProbe

IsSyncing(st) == st.type = "Syncing"

\* Arc<SyncEngineInner>: an engine lives while the handle or a command holds
\* it; the fields of a dropped engine are gone
Held(e, tk) == engine' = e \/ \E t \in Tasks : tk[t].eng = e
Collect(f, tk, zero) == [e \in Engines |-> IF Held(e, tk) THEN f[e] ELSE zero]

\* a command returns res to its caller, the engine's status being st: its
\* locals are dropped, its clone of the engine among them
Return(t, res, st) ==
    /\ task' = [task EXCEPT ![t] = IdleTask]
    /\ status' = Collect(st, task', Idle)
    /\ pending_updated_files' = Collect(pending_updated_files, task', << >>)

\* commands take the first free slot
FreeSlot(t) == task[t].pc = "idle" /\ \A u \in 1..(t - 1) : task[u].pc # "idle"
Goto(t, pc) == task' = [task EXCEPT ![t].pc = pc]
set_status(e, st) == status' = [status EXCEPT ![e] = st]

\* collect_md_files
collect_md_files == [i \in 1..Len(PathList) |-> [path |-> PathList[i], content |-> disk[i]]]

\* start_sync up to the call of engine.sync: read the files, create or get
\* the engine and clone it
StartSync(t) ==
    /\ FreeSlot(t)
    /\ LET free == {e \in Engines : \A u \in Tasks : task[u].eng # e}
           e == IF engine = 0 THEN CHOOSE x \in free : \A y \in free : x <= y ELSE engine IN
       /\ engine' = e
       /\ task' = [task EXCEPT ![t] = [IdleTask EXCEPT !.pc = "check", !.cmd = "start_sync",
                                                       !.eng = e, !.files = collect_md_files]]
    /\ UNCHANGED <<lockVars, probe, disk, status, pending_updated_files, devVars, srvVars, clock>>

\* sync: "Check if sync already in progress"
SyncCheck(t) ==
    /\ task[t].pc = "check"
    /\ engine' = engine
    /\ IF IsSyncing(status[task[t].eng])
       THEN Return(t, "AlreadyInProgress", status)
       ELSE Goto(t, "connecting") /\ UNCHANGED <<status, pending_updated_files>>
    /\ UNCHANGED <<lockVars, probe, disk, devVars, srvVars, clock>>

\* sync: set_status(Syncing { Connecting })
SyncSetConnecting(t) ==
    /\ task[t].pc = "connecting"
    /\ set_status(task[t].eng, Syncing("Connecting"))
    /\ Goto(t, "health")
    /\ UNCHANGED <<lockVars, probe, disk, engine, pending_updated_files, devVars, srvVars, clock>>

\* sync: check_connectivity().await?, then Failed or Syncing { UploadingFiles }
SyncHealth(t, outcome) ==
    /\ task[t].pc = "health"
    /\ engine' = engine
    /\ CASE outcome = "ok" ->
              /\ set_status(task[t].eng, Syncing("UploadingFiles"))
              /\ Goto(t, "upload")
              /\ UNCHANGED pending_updated_files
         [] outcome = "status" ->
              Return(t, "Network",
                     [status EXCEPT ![task[t].eng] = Failed("Backend not reachable")])
         [] outcome = "neterr" ->
              Return(t, "Network", status)
    /\ UNCHANGED <<lockVars, probe, disk, devVars, srvVars, clock>>

\* sync: upload_files(..).await?, then the orphan check: with orphans the
\* updated files are parked, the status becomes AwaitingOrphanConfirmation and
\* sync returns Ok
Uploaded(t, r) ==
    /\ r.seq <= MaxSeq
    /\ srv_cards' = r.cards
    /\ card_id_seq' = r.seq
    /\ IF ~r.ok THEN
          Return(t, "Backend", status)
       ELSE IF r.orphaned_cards # {} THEN
          /\ pending_updated_files' =
                 [pending_updated_files EXCEPT ![task[t].eng] = r.updated_files]
          /\ set_status(task[t].eng, AwaitingOrphanConfirmation(r.orphaned_cards))
          /\ task' = [task EXCEPT ![t].pc = "ret", ![t].files = << >>]
       ELSE
          /\ task' = [task EXCEPT ![t].pc = "setPushing", ![t].files = << >>,
                                  ![t].updated_files = r.updated_files]
          /\ UNCHANGED <<status, pending_updated_files>>

SyncUpload(t, outcome) ==
    /\ task[t].pc = "upload"
    /\ engine' = engine
    /\ IF outcome = "ok" THEN
          Uploaded(t, upload(srv_cards, card_id_seq, task[t].files, Device, clock))
       ELSE
          /\ Return(t, IF outcome = "neterr" THEN "Network" ELSE "Backend", status)
          /\ UNCHANGED <<srv_cards, card_id_seq>>
    /\ UNCHANGED <<lockVars, probe, disk, devVars, srv_reviews, acked, srv_card_states, clock>>

\* continue_sync_internal: set_status(Syncing { PushingReviews })
SetPushing(t) ==
    /\ task[t].pc = "setPushing"
    /\ set_status(task[t].eng, Syncing("PushingReviews"))
    /\ Goto(t, "readBatch")
    /\ UNCHANGED <<lockVars, probe, disk, engine, pending_updated_files, devVars, srvVars, clock>>

\* continue_sync_internal: let pending_reviews = get_pending_reviews()
ReadBatch(t) ==
    /\ task[t].pc = "readBatch"
    /\ LET batch == get_pending_reviews(pending_reviews) IN
       task' = [task EXCEPT ![t].batch = batch,
                            ![t].pc = IF batch = << >> THEN "setPulling" ELSE "push"]
    /\ UNCHANGED <<lockVars, probe, disk, engVars, devVars, srvVars, clock>>

\* insert_reviews on the server: one row per submitted review
insert_reviews(reviews, batch) ==
    [r \in DOMAIN reviews |-> IF r \in ReviewIds(batch) THEN reviews[r] + 1 ELSE reviews[r]]

\* a faulty PushReviews: the response of the push is not looked at
PushReviewsUnchecked(t, outcome) ==
    /\ task[t].pc = "push"
    /\ IF outcome = "ok" THEN
          /\ srv_reviews' = insert_reviews(srv_reviews, task[t].batch)
          /\ acked' = acked \cup ReviewIds(task[t].batch)
       ELSE
          UNCHANGED <<srv_reviews, acked>>
    /\ Goto(t, "mark")
    /\ UNCHANGED <<lockVars, probe, disk, engVars, devVars, srv_cards, card_id_seq, srv_card_states, clock>>

\* continue_sync_internal: push_reviews(token, &pending_reviews).await?
\* (the rows one review may leave on the server are capped at MaxStored: an
\* unreadable answer comes only while a later push still fits)
PushReviews(t, outcome) ==
    /\ task[t].pc = "push"
    /\ engine' = engine
    /\ IF outcome = "ok" THEN
          /\ srv_reviews' = insert_reviews(srv_reviews, task[t].batch)
          /\ acked' = acked \cup ReviewIds(task[t].batch)
          /\ Goto(t, "mark")
          /\ UNCHANGED <<status, pending_updated_files>>
       ELSE IF outcome = "parse" THEN
          /\ \A r \in ReviewIds(task[t].batch) : srv_reviews[r] + 1 < MaxStored
          /\ srv_reviews' = insert_reviews(srv_reviews, task[t].batch)
          /\ acked' = acked \cup ReviewIds(task[t].batch)
          /\ Return(t, "Parse", status)
       ELSE
          /\ Return(t, IF outcome = "neterr" THEN "Network" ELSE "Backend", status)
          /\ UNCHANGED <<srv_reviews, acked>>
    /\ UNCHANGED <<lockVars, probe, disk, devVars, srv_cards, card_id_seq, srv_card_states, clock>>

\* continue_sync_internal: mark_reviews_synced(&ids)
MarkSynced(t) ==
    /\ task[t].pc = "mark"
    /\ pending_reviews' = mark_reviews_synced(pending_reviews, ReviewIds(task[t].batch))
    /\ task' = [task EXCEPT ![t].pc = "setPulling", ![t].batch = << >>]
    /\ UNCHANGED <<lockVars, probe, disk, engVars, sync_state, cards, card_states, srvVars, clock>>

\* continue_sync_internal: set_status(Syncing { PullingState }); get_sync_state()
SetPulling(t) ==
    /\ task[t].pc = "setPulling"
    /\ set_status(task[t].eng, Syncing("PullingState"))
    /\ task' = [task EXCEPT ![t].pc = "pull", ![t].last_sync = sync_state.last_sync_at]
    /\ UNCHANGED <<lockVars, probe, disk, engine, pending_updated_files, devVars, srvVars, clock>>

\* continue_sync_internal: pull_state(token, last_sync).await?, then
\* set_status(Syncing { ApplyingChanges })
PullState(t, outcome) ==
    /\ task[t].pc = "pull"
    /\ engine' = engine
    /\ IF outcome = "ok" THEN
          /\ task' = [task EXCEPT ![t].pc = "apply", ![t].last_sync = NoTime,
                                  ![t].pulled = get_cards_since(srv_cards, Device, task[t].last_sync),
                                  ![t].pulled_states =
                                      get_card_states_since(srv_card_states, task[t].last_sync)]
          /\ set_status(task[t].eng, Syncing("ApplyingChanges"))
          /\ UNCHANGED pending_updated_files
       ELSE
          Return(t, IF outcome = "neterr" THEN "Network" ELSE "Backend", status)
    /\ UNCHANGED <<lockVars, probe, disk, devVars, srvVars, clock>>

\* continue_sync_internal: apply_cards_from_sync(&cards, &now) and
\* apply_states_from_sync(&states), whose errors the callbacks turn into 0
\* (the statements before the failing one stay: k cards, m states), then
\* set_status(Syncing { WritingFiles }) when there are updated files
ApplyChanges(t, k, m) ==
    /\ task[t].pc = "apply"
    /\ k \in 0..Len(task[t].pulled)
    /\ m \in 0..Len(task[t].pulled_states)
    /\ cards' = upsert_cards_from_sync(cards, task[t].pulled, k)
    /\ card_states' = save_card_states_synced(card_states, task[t].pulled_states, m)
    /\ task' = [task EXCEPT ![t].pc = "updateSyncState", ![t].pulled = << >>,
                            ![t].pulled_states = << >>,
                            ![t].apply_err = \/ k < Len(task[t].pulled)
                                             \/ m < Len(task[t].pulled_states)]
    /\ IF task[t].updated_files # << >>
       THEN set_status(task[t].eng, Syncing("WritingFiles"))
       ELSE UNCHANGED status
    /\ UNCHANGED <<lockVars, probe, disk, engine, pending_updated_files, pending_reviews, sync_state,
                   srvVars, clock>>

\* continue_sync_internal: let now = Utc::now(); update_sync_state(&now)
UpdateSyncState(t) ==
    /\ task[t].pc = "updateSyncState"
    /\ sync_state' = update_sync_state(sync_state, clock)
    /\ task' = [task EXCEPT ![t].pc = "setCompleted", ![t].apply_err = FALSE,
                            ![t].synced_at = clock]
    /\ UNCHANGED <<lockVars, probe, disk, engVars, pending_reviews, cards, card_states, srvVars, clock>>

\* continue_sync_internal: set_status(Completed { synced_at: now, .. }); Ok(stats)
SetCompleted(t) ==
    /\ task[t].pc = "setCompleted"
    /\ set_status(task[t].eng, Completed(task[t].synced_at))
    /\ task' = [task EXCEPT ![t].pc = "ret", ![t].synced_at = NoTime]
    /\ UNCHANGED <<lockVars, probe, disk, engine, pending_updated_files, devVars, srvVars, clock>>

\* start_sync: Ok(_stats) => Ok(engine.status().await); skip_orphan_deletion:
\* Ok(stats).  Neither writes a file.
CommandReturn(t) ==
    /\ task[t].pc = "ret"
    /\ engine' = engine
    /\ Return(t, IF task[t].cmd = "start_sync" THEN status[task[t].eng].type ELSE "Ok", status)
    /\ UNCHANGED <<lockVars, probe, disk, devVars, srvVars, clock>>

\* skip_orphan_deletion up to continue_sync_internal: get the engine (or fail
\* with "No sync in progress") and read pending_updated_files
SkipOrphanDeletion(t) ==
    /\ FreeSlot(t)
    /\ IF engine = 0 THEN UNCHANGED task
       ELSE task' = [task EXCEPT ![t] = [IdleTask EXCEPT
                        !.pc = "setPushing", !.cmd = "skip_orphan_deletion", !.eng = engine,
                        !.updated_files = pending_updated_files[engine]]]
    /\ UNCHANGED <<lockVars, probe, disk, engVars, devVars, srvVars, clock>>

\* confirm_orphan_deletion: get the engine (or fail with "No sync in progress")
ConfirmOrphanDeletion(t, card_ids) ==
    /\ FreeSlot(t)
    /\ IF engine = 0 THEN UNCHANGED task
       ELSE task' = [task EXCEPT ![t] = [IdleTask EXCEPT
                        !.pc = "confirm", !.cmd = "confirm_orphan_deletion", !.eng = engine,
                        !.card_ids = card_ids]]
    /\ UNCHANGED <<lockVars, probe, disk, engVars, devVars, srvVars, clock>>

\* SyncEngine::confirm_orphan_deletion: POST /api/sync/confirm-delete, which
\* soft-deletes the cards; Ok(deleted_count)
ConfirmDelete(t, outcome) ==
    /\ task[t].pc = "confirm"
    /\ engine' = engine
    /\ IF outcome = "ok" THEN
          /\ srv_cards' = soft_delete_cards(srv_cards, task[t].card_ids, clock)
          /\ Return(t, "Deleted", status)
       ELSE
          /\ Return(t, IF outcome = "neterr" THEN "Network" ELSE "Backend", status)
          /\ UNCHANGED srv_cards
    /\ UNCHANGED <<lockVars, probe, disk, devVars, card_id_seq, srv_reviews, acked, srv_card_states, clock>>

\* cancel_sync: *engine_guard = None
CancelSync ==
    /\ engine # 0
    /\ engine' = 0
    /\ status' = Collect(status, task, Idle)
    /\ pending_updated_files' = Collect(pending_updated_files, task, << >>)
    /\ UNCHANGED <<lockVars, probe, disk, task, devVars, srvVars, clock>>

\* submit_review: schedule and save_card_state; insert_pending_review;
\* increment_pending_changes (all under the repository lock)
SubmitReview(card_id, rating) ==
    /\ Len(pending_reviews) < MaxReviews
    /\ card_states' = save_card_state(card_states, card_id,
                                      schedule(get_card_state(card_states, card_id), rating))
    /\ pending_reviews' = insert_pending_review(pending_reviews, card_id)
    /\ sync_state' = increment_pending_changes(sync_state)
    /\ UNCHANGED <<lockVars, probe, disk, engVars, task, cards, srvVars, clock>>

\* POST /api/study/review on the server, for the device: 404 when the card
\* is unknown or deleted; otherwise schedule and upsert_card_state (the row it
\* adds to reviews belongs to no review of the local queue)
ServerReview(card_id, rating) ==
    /\ card_id \in DOMAIN srv_cards
    /\ srv_cards[card_id].deleted_at = NoTime
    /\ get_card_state(srv_card_states, card_id).reviews_count < MaxReviews
    /\ srv_card_states' =
           upsert_card_state(srv_card_states, card_id,
                             schedule(get_card_state(srv_card_states, card_id), rating), clock)
    /\ UNCHANGED <<lockVars, probe, disk, engVars, task, devVars, srv_cards, card_id_seq, srv_reviews,
                   acked, clock>>

\* the user saves a file of the watched directory
EditFile(i, content) ==
    /\ disk[i] # content
    /\ disk' = [disk EXCEPT ![i] = content]
    /\ UNCHANGED <<lockVars, probe, engVars, task, devVars, srvVars, clock>>

\* time passes
Tick ==
    /\ clock < MaxClock
    /\ clock' = clock + 1
    /\ UNCHANGED <<lockVars, probe, disk, engVars, task, devVars, srvVars>>

\* the ids a confirm_orphan_deletion call may carry: chosen among the orphans
\* shown, or any id when none is shown
ConfirmChoices ==
    IF engine # 0 /\ status[engine].type = "AwaitingOrphanConfirmation"
    THEN {ids \in SUBSET {o.id : o \in status[engine].orphans} : ids # {}}
    ELSE {{1}}

\* the steps of the commands that run in the slots ts
Commands(ts) ==
    \/ \E t \in ts : StartSync(t)
    \/ \E t \in ts : SyncCheck(t)
    \/ \E t \in ts : SyncSetConnecting(t)
    \/ \E t \in ts, o \in HttpOutcomes : SyncHealth(t, o)
    \/ \E t \in ts, o \in HttpOutcomes : SyncUpload(t, o)
    \/ \E t \in ts : SetPushing(t)
    \/ \E t \in ts : ReadBatch(t)
    \/ \E t \in ts, o \in PushOutcomes : PushReviews(t, o)
    \/ \E t \in ts : MarkSynced(t)
    \/ \E t \in ts : SetPulling(t)
    \/ \E t \in ts, o \in HttpOutcomes : PullState(t, o)
    \/ \E t \in ts, k \in 0..MaxSeq, m \in 0..MaxSeq : ApplyChanges(t, k, m)
    \/ \E t \in ts : UpdateSyncState(t)
    \/ \E t \in ts : SetCompleted(t)
    \/ \E t \in ts : CommandReturn(t)
    \/ \E t \in ts : SkipOrphanDeletion(t)
    \/ \E t \in ts, ids \in ConfirmChoices : ConfirmOrphanDeletion(t, ids)
    \/ \E t \in ts, o \in HttpOutcomes : ConfirmDelete(t, o)

\* what the user does besides: reviews, file edits, and time passing
Environment ==
    \/ \E c \in ReviewCards : SubmitReview(c, Good)
    \/ \E i \in 1..Len(PathList), c \in FileContents : EditFile(i, c)
    \/ Tick

\* Spec: the commands are invoked one after the other (a command is invoked
\* when the one before has returned), in any environment, cancel_sync at any
\* moment
Next == Commands({1}) \/ CancelSync \/ Environment

Spec == Init /\ [][Next]_vars

\* ConcSpec: up to NumTasks commands run at once, on the data the user left
InitConc ==
    /\ disk \in [1..Len(PathList) -> FileContents]
    /\ engine = 0
    /\ guard = NoGuards
    /\ thread = NoThreads
    /\ status = [e \in Engines |-> Idle]
    /\ pending_updated_files = [e \in Engines |-> << >>]
    /\ task = [t \in Tasks |-> IdleTask]
    /\ \E n \in 0..1 :
          /\ pending_reviews = [i \in 1..n |-> [id |-> i, card_id |-> 1, synced |-> FALSE]]
          /\ sync_state = [last_sync_at |-> NoTime, pending_changes |-> n]
    /\ cards = EmptyFn
    /\ srv_cards = EmptyFn
    /\ card_id_seq = 0
    /\ srv_reviews = [r \in 1..MaxReviews |-> 0]
    /\ acked = {}
    /\ clock = 1
    /\ card_states = EmptyFn
    /\ srv_card_states = EmptyFn
    /\ probe = NoProbe

NextConc == Commands(Tasks)

ConcSpec == InitConc /\ [][NextConc]_vars

\* --------------------------------------------- the server's requests alone
\* the card blocks a file is made of: with or without an ID line, the text
\* changed or not
Blocks ==
    {<<QLine("q1"), ALine("a1")>>,
     <<QLine("q2"), ALine("a2")>>,
     <<IdLine(1), QLine("q1"), ALine("a1")>>,
     <<IdLine(1), QLine("q2"), ALine("a1")>>,
     <<IdLine(2), QLine("q1"), ALine("a1")>>}

BlockLists(n) == UNION {[1..k -> Blocks] : k \in 0..n}

\* the lines of a file made of the blocks, one after the other
RECURSIVE Flatten(_)
Flatten(blocks) == IF blocks = << >> THEN << >> ELSE Head(blocks) \o Flatten(Tail(blocks))

\* the SyncFile of a file made of the blocks
BlockFile(blocks) == [path |-> PathList[1], content |-> Content(Flatten(blocks), TRUE)]

\* the upload handler has answered r to the file made of the blocks
SrvUploaded(blocks, r) ==
    /\ r.seq <= MaxSeq
    /\ srv_cards' = r.cards
    /\ card_id_seq' = r.seq
    /\ probe' = [op |-> "upload", blocks |-> blocks, ids_before |-> DOMAIN srv_cards,
                 ok |-> r.ok, new_ids |-> r.new_ids, updated_files |-> r.updated_files,
                 orphaned_cards |-> r.orphaned_cards]

\* POST /api/sync/upload of one file
SrvUpload(blocks) ==
    /\ SrvUploaded(blocks, upload(srv_cards, card_id_seq, <<BlockFile(blocks)>>, Device, clock))
    /\ UNCHANGED <<lockVars, disk, engVars, task, devVars, srv_reviews, acked, srv_card_states, clock>>

\* POST /api/sync/confirm-delete
SrvConfirmDelete(card_ids) ==
    /\ srv_cards' = soft_delete_cards(srv_cards, card_ids, clock)
    /\ probe' = [op |-> "confirm_delete", card_ids |-> card_ids]
    /\ UNCHANGED <<lockVars, disk, engVars, task, devVars, card_id_seq, srv_reviews, acked,
                   srv_card_states, clock>>

\* SrvSpec: upload and confirm-delete requests of the device, in any order
NextSrv ==
    \/ \E blocks \in BlockLists(MaxBlocks) : SrvUpload(blocks)
    \/ \E card_ids \in SUBSET (1..MaxSeq) : SrvConfirmDelete(card_ids)
    \/ Tick

SrvSpec == Init /\ [][NextSrv]_vars

\* ------------------------------------------------ flashcard-core's parser
\* Option<String>
NoText == [some |-> FALSE, text |-> << >>]
SomeText(t) == [some |-> TRUE, text |-> t]

\* Option<CardBuilder>: None, and CardBuilder::new
NoCard == [some |-> FALSE, id |-> NoId, question |-> NoText, answer |-> NoText, start_line |-> 0]
CardBuilder_new(start_line) == [NoCard EXCEPT !.some = TRUE, !.start_line = start_line]

\* Parser::new; err is the ParseError that ended the parse, "" for none
Parser_new == [current |-> NoCard, current_field |-> "None", buffer |-> << >>, err |-> ""]

\* str::trim on a text: empty lines at its start and at its end go
RECURSIVE TrimStart(_)
TrimStart(buf) ==
    IF buf = << >> THEN << >>
    ELSE IF buf[1] = "" THEN TrimStart(Tail(buf))
    ELSE buf

TrimText(buf) == Trim(TrimStart(buf))

\* Parser::flush_buffer: the joined buffer goes to the current field of the
\* current card, if there are any
flush_buffer(ps) ==
    IF ps.buffer = << >> THEN ps
    ELSE IF ~ps.current.some \/ ps.current_field = "None" THEN [ps EXCEPT !.buffer = << >>]
    ELSE IF ps.current_field = "Q"
    THEN [ps EXCEPT !.buffer = << >>, !.current.question = SomeText(ps.buffer)]
    ELSE [ps EXCEPT !.buffer = << >>, !.current.answer = SomeText(ps.buffer)]

\* handle_id after its flush: the id is parsed (an empty body does not
\* parse) and set on the current card, a card begun only if there is none
SetId(ps, line, line_num) ==
    IF line.s = "bad" \/ line.n = NoId THEN [ps EXCEPT !.err = "InvalidId"]
    ELSE [ps EXCEPT !.current = [IF @.some THEN @ ELSE CardBuilder_new(line_num)
                                    EXCEPT !.id = line.n],
                    !.current_field = "None"]

handle_id(ps, line, line_num) == SetId(flush_buffer(ps), line, line_num)

\* handle_question after its flush
StartQuestion(ps, text, line_num) ==
    [ps EXCEPT !.current = IF @.some THEN @ ELSE CardBuilder_new(line_num),
               !.current_field = "Q",
               !.buffer = Append(@, text)]

handle_question(ps, text, line_num) == StartQuestion(flush_buffer(ps), text, line_num)

\* handle_answer after its flush
StartAnswer(ps, text) == [ps EXCEPT !.current_field = "A", !.buffer = Append(@, text)]

handle_answer(ps, text) == StartAnswer(flush_buffer(ps), text)

\* Parser::process_line; a text or empty line goes to the buffer
process_line(ps, line, line_num) ==
    IF ps.err # "" THEN ps
    ELSE IF line.k = "ID" THEN handle_id(ps, line, line_num)
    ELSE IF line.k = "Q" THEN handle_question(ps, line.s, line_num)
    ELSE IF line.k = "A" THEN handle_answer(ps, line.s)
    ELSE [ps EXCEPT !.buffer = Append(@, line.s)]

RECURSIVE ProcessFrom(_, _, _)
ProcessFrom(ps, lines, i) ==
    IF i > Len(lines) THEN ps ELSE ProcessFrom(process_line(ps, lines[i], i), lines, i + 1)

\* CardBuilder::build, as the result of parse
CardBuilder_build(card) ==
    IF ~card.question.some THEN [err |-> "MissingQuestion", cards |-> << >>]
    ELSE IF ~card.answer.some THEN [err |-> "MissingAnswer", cards |-> << >>]
    ELSE [err |-> "",
          cards |-> <<[id |-> card.id, question |-> TrimText(card.question.text),
                       answer |-> TrimText(card.answer.text),
                       line_number |-> card.start_line]>>]

\* finalize after its flush: the current card, if any, is built and pushed
\* (seen_ids is empty when its id is inserted: DuplicateId cannot come)
Finalized(ps) ==
    IF ps.err # "" THEN [err |-> ps.err, cards |-> << >>]
    ELSE IF ps.current.some THEN CardBuilder_build(ps.current)
    ELSE [err |-> "", cards |-> << >>]

finalize(ps) == Finalized(IF ps.err # "" THEN ps ELSE flush_buffer(ps))

\* content.trim().is_empty()
IsBlank(lines) == \A i \in 1..Len(lines) : lines[i].k = "T" /\ lines[i].s = ""

\* flashcard_core::parser::parse
parse(content) ==
    IF IsBlank(content.lines) THEN [err |-> "", cards |-> << >>]
    ELSE finalize(ProcessFrom(Parser_new, content.lines, 1))

\* the blocks of the files given to parse: the complete ones, one followed by
\* an empty line, one without its answer, one whose ID: line has an empty body
CompleteBlocks == Blocks \cup {<<QLine("q1"), ALine("a1"), TLine("")>>}
EmptyIdBlock == <<IdLine(NoId), QLine("q1"), ALine("a1")>>
CoreBlocks == CompleteBlocks \cup {<<IdLine(1), QLine("q1")>>, EmptyIdBlock}

CoreInputs == UNION {[1..k -> CoreBlocks] : k \in 0..MaxCoreBlocks}

\* CoreSpec: parse is called on a file made of blocks
InitCore ==
    /\ disk = [i \in 1..Len(PathList) |-> F_NoId]
    /\ engine = 0
    /\ guard = NoGuards
    /\ thread = NoThreads
    /\ status = [e \in Engines |-> Idle]
    /\ pending_updated_files = [e \in Engines |-> << >>]
    /\ task = [t \in Tasks |-> IdleTask]
    /\ pending_reviews = << >>
    /\ sync_state = [last_sync_at |-> NoTime, pending_changes |-> 0]
    /\ cards = EmptyFn
    /\ srv_cards = EmptyFn
    /\ card_id_seq = 0
    /\ srv_reviews = [r \in 1..MaxReviews |-> 0]
    /\ acked = {}
    /\ clock = 1
    /\ card_states = EmptyFn
    /\ srv_card_states = EmptyFn
    /\ probe \in {[op |-> "input", blocks |-> b] : b \in CoreInputs}

\* the result r of parse on the file made of the blocks
Parsed(blocks, r) == [op |-> "parse", blocks |-> blocks, err |-> r.err, cards |-> r.cards]

CoreParse ==
    /\ probe.op = "input"
    /\ probe' = Parsed(probe.blocks, parse(Content(Flatten(probe.blocks), FALSE)))
    /\ UNCHANGED <<lockVars, disk, engVars, task, devVars, srvVars, clock>>

NextCore == CoreParse

CoreSpec == InitCore /\ [][NextCore]_vars

\* ---------------------------------------------------------- ID injection
\* result.join("\n") as a content: a last line that is empty leaves the
\* newline before it as the end of the text
JoinLines(ls) ==
    IF ls = << >> THEN Content(<< >>, FALSE)
    ELSE IF ls[Len(ls)] = TLine("") THEN Content(SubSeq(ls, 1, Len(ls) - 1), Len(ls) > 1)
    ELSE Content(ls, FALSE)

\* flashcard_core::parser::inject_ids
inject_ids(content, id_assignments) ==
    IF id_assignments = << >> THEN content
    ELSE JoinLines(InjectFrom(content.lines, id_assignments, 1))

\* the lines of the contents, and the contents: a text that does not end with
\* a newline has no empty last line, the empty text has no newline
TextLines == {QLine("q1"), QLine(""), ALine("a1"), TLine("t"), TLine(""), IdLine(1)}

WellFormed(c) ==
    /\ c.lines = << >> => ~c.nl
    /\ (c.lines # << >> /\ ~c.nl) => c.lines[Len(c.lines)] # TLine("")

Contents ==
    {c \in {Content(ls, nl) : ls \in UNION {[1..k -> TextLines] : k \in 0..MaxLines},
                              nl \in BOOLEAN} : WellFormed(c)}

\* the lists of assignments line -> id
Assignments == UNION {[1..k -> [line : 1..MaxLines, id : 1..MaxSeq]] : k \in 0..MaxAssign}

\* one new id for each parsed card, at the line the card starts at
AssignAt(start_lines, base) ==
    [i \in 1..Len(start_lines) |-> [line |-> start_lines[i], id |-> base + i]]

CoreLines(cs) == [i \in 1..Len(cs) |-> cs[i].line_number]
SrvLines(cs) == [i \in 1..Len(cs) |-> cs[i].line]

InitInject ==
    /\ disk = [i \in 1..Len(PathList) |-> F_NoId]
    /\ engine = 0
    /\ guard = NoGuards
    /\ thread = NoThreads
    /\ status = [e \in Engines |-> Idle]
    /\ pending_updated_files = [e \in Engines |-> << >>]
    /\ task = [t \in Tasks |-> IdleTask]
    /\ pending_reviews = << >>
    /\ sync_state = [last_sync_at |-> NoTime, pending_changes |-> 0]
    /\ cards = EmptyFn
    /\ srv_cards = EmptyFn
    /\ card_id_seq = 0
    /\ srv_reviews = [r \in 1..MaxReviews |-> 0]
    /\ acked = {}
    /\ clock = 1
    /\ card_states = EmptyFn
    /\ srv_card_states = EmptyFn
    /\ probe \in {[op |-> "content", content |-> c] : c \in Contents}

\* the output of an injection into the content
Injected(op, content, new_ids, out) ==
    [op |-> op, content |-> content, new_ids |-> new_ids, out |-> out]

CoreInject(a) ==
    /\ probe.op = "content"
    /\ probe' = Injected("inject_ids", probe.content, a, inject_ids(probe.content, a))
    /\ UNCHANGED <<lockVars, disk, engVars, task, devVars, srvVars, clock>>

SrvRegenerate(a) ==
    /\ probe.op = "content"
    /\ probe' = Injected("regenerate", probe.content, a, regenerate_md_with_ids(probe.content, a))
    /\ UNCHANGED <<lockVars, disk, engVars, task, devVars, srvVars, clock>>

\* parse, assignment of new ids, injection, parse again
RoundTrip(by, content, first_ok, first_cards, new_ids, second_ok, second_cards) ==
    [op |-> "round_trip", by |-> by, content |-> content, new_ids |-> new_ids,
     first_ok |-> first_ok, first_cards |-> first_cards,
     second_ok |-> second_ok, second_cards |-> second_cards]

CoreAgain(content, first, new_ids, second) ==
    RoundTrip("inject_ids", content, first.err = "", first.cards, new_ids, second.err = "", second.cards)

CoreInjected(content, first, new_ids) ==
    CoreAgain(content, first, new_ids, parse(inject_ids(content, new_ids)))

CoreRoundTrip(base) ==
    /\ probe.op = "content"
    /\ probe' = CoreInjected(probe.content, parse(probe.content),
                             AssignAt(CoreLines(parse(probe.content).cards), base))
    /\ UNCHANGED <<lockVars, disk, engVars, task, devVars, srvVars, clock>>

SrvAgain(content, first, new_ids, second) ==
    RoundTrip("regenerate", content, first.ok, first.cards, new_ids, second.ok, second.cards)

SrvInjected(content, first, new_ids) ==
    SrvAgain(content, first, new_ids, parse_md_content(regenerate_md_with_ids(content, new_ids)))

SrvRoundTrip(base) ==
    /\ probe.op = "content"
    /\ probe' = SrvInjected(probe.content, parse_md_content(probe.content),
                            AssignAt(SrvLines(parse_md_content(probe.content).cards), base))
    /\ UNCHANGED <<lockVars, disk, engVars, task, devVars, srvVars, clock>>

NextInject ==
    \/ \E a \in Assignments : CoreInject(a)
    \/ \E a \in Assignments : SrvRegenerate(a)
    \/ \E base \in 0..MaxSeq : CoreRoundTrip(base)
    \/ \E base \in 0..MaxSeq : SrvRoundTrip(base)

InjectSpec == InitInject /\ [][NextInject]_vars

\* ------------------------------------------------------- the review queue
\* the wall-clock day (the day before it is day 1), the hours of the day the
\* queue is asked at, the values of daily_reset_hour
Today == 2
Hours == {3, 5}
ResetHours == {0, 4}

\* a card with its state: the status, the day it is due, whether it is deleted
DueRows == [1..MaxSeq -> [status : {"new", "learning", "review"}, due : 1..Today, deleted : BOOLEAN]]

\* get_adjusted_today
get_adjusted_today(now_day, current_hour, daily_reset_hour) ==
    IF current_hour < daily_reset_hour THEN now_day - 1 ELSE now_day

\* the texts compared by the desktop's query: format("%Y-%m-%d") gives the
\* date alone, to_rfc3339 the date followed by the time of day
get_adjusted_today_string(now_day, current_hour, daily_reset_hour) ==
    <<get_adjusted_today(now_day, current_hour, daily_reset_hour)>>

to_rfc3339(day) == <<day, 0>>

\* a <= b on TEXT values: the first difference decides, a prefix comes first
TextLeq(a, b) ==
    \/ \E i \in 1..Len(a) :
          /\ i <= Len(b)
          /\ a[i] < b[i]
          /\ \A j \in 1..(i - 1) : a[j] = b[j]
    \/ (Len(a) <= Len(b) /\ \A j \in 1..Len(a) : a[j] = b[j])

\* the WHERE clauses of the two get_due_cards
SrvDue(rows, now_day) ==
    {c \in DOMAIN rows : /\ ~rows[c].deleted
                         /\ rows[c].status \in {"review", "learning", "relearning"}
                         /\ rows[c].due <= now_day}

LocalDue(rows, today) ==
    {c \in DOMAIN rows : /\ ~rows[c].deleted
                         /\ rows[c].status # "new"
                         /\ TextLeq(to_rfc3339(rows[c].due), today)}

MinOf(a, b) == IF a < b THEN a ELSE b

\* ORDER BY cs.due_date LIMIT n over the selected cards: the results the
\* query may give (rows with the same due date come in any order)
OrderLimit(rows, sel, n) ==
    {q \in [1..MinOf(n, Cardinality(sel)) -> sel] :
        /\ \A i, j \in DOMAIN q : i < j => (q[i] # q[j] /\ rows[q[i]].due <= rows[q[j]].due)
        /\ \A c \in sel : (\A i \in DOMAIN q : q[i] # c)
                              => \A i \in DOMAIN q : rows[q[i]].due <= rows[c].due}

InitQueue ==
    /\ disk = [i \in 1..Len(PathList) |-> F_NoId]
    /\ engine = 0
    /\ guard = NoGuards
    /\ thread = NoThreads
    /\ status = [e \in Engines |-> Idle]
    /\ pending_updated_files = [e \in Engines |-> << >>]
    /\ task = [t \in Tasks |-> IdleTask]
    /\ pending_reviews = << >>
    /\ sync_state = [last_sync_at |-> NoTime, pending_changes |-> 0]
    /\ cards = EmptyFn
    /\ srv_cards = EmptyFn
    /\ card_id_seq = 0
    /\ srv_reviews = [r \in 1..MaxReviews |-> 0]
    /\ acked = {}
    /\ clock = 1
    /\ card_states = EmptyFn
    /\ srv_card_states = EmptyFn
    /\ probe \in {[op |-> "queue", rows |-> rows, hour |-> h, daily_reset_hour |-> r,
                    review_limit |-> n] :
                       rows \in DueRows, h \in Hours, r \in ResetHours, n \in 1..MaxSeq}

\* the review_cards of the answer to the request p
DueCards(p, review_cards) ==
    [op |-> "get_due_cards", rows |-> p.rows, hour |-> p.hour,
     daily_reset_hour |-> p.daily_reset_hour, review_limit |-> p.review_limit,
     review_cards |-> review_cards]

\* GET /api/study/queue: today is the date of the clock
SrvStudyQueue ==
    /\ probe.op = "queue"
    /\ \E q \in OrderLimit(probe.rows, SrvDue(probe.rows, Today), probe.review_limit) :
          probe' = DueCards(probe, q)
    /\ UNCHANGED <<lockVars, disk, engVars, task, devVars, srvVars, clock>>

\* get_study_queue of the desktop
get_study_queue ==
    /\ probe.op = "queue"
    /\ \E q \in OrderLimit(probe.rows,
                            LocalDue(probe.rows,
                                     get_adjusted_today_string(Today, probe.hour,
                                                               probe.daily_reset_hour)),
                            probe.review_limit) :
          probe' = DueCards(probe, q)
    /\ UNCHANGED <<lockVars, disk, engVars, task, devVars, srvVars, clock>>

NextQueue == SrvStudyQueue \/ get_study_queue

QueueSpec == InitQueue /\ [][NextQueue]_vars

\* ------------------------------------------------- the reviews of a card
\* the ratings of the requests: request.rating is a u8 on the desktop,
\* payload.rating an i32 on the server
LocalSubmitted == 0..5
SrvSubmitted == (0..5) \cup {257}

\* Rating::from_value(value).unwrap_or(Rating::Good), as its to_value
RatingOrGood(value) == IF value \in AllRatings THEN value ELSE Good

\* payload.rating as u8
AsU8(value) == value % 256

\* the card before and after a review: the rating submitted, the rating given
\* to schedule, the rating of the review event that is stored
Reviewed(by, old, submitted, rating, event_rating) ==
    [op |-> "review", by |-> by, old |-> old, submitted |-> submitted, rating |-> rating,
     event_rating |-> event_rating, new |-> schedule(old, rating)]

InitReview ==
    /\ disk = [i \in 1..Len(PathList) |-> F_NoId]
    /\ engine = 0
    /\ guard = NoGuards
    /\ thread = NoThreads
    /\ status = [e \in Engines |-> Idle]
    /\ pending_updated_files = [e \in Engines |-> << >>]
    /\ task = [t \in Tasks |-> IdleTask]
    /\ pending_reviews = << >>
    /\ sync_state = [last_sync_at |-> NoTime, pending_changes |-> 0]
    /\ cards = EmptyFn
    /\ srv_cards = EmptyFn
    /\ card_id_seq = 0
    /\ srv_reviews = [r \in 1..MaxReviews |-> 0]
    /\ acked = {}
    /\ clock = 1
    /\ card_states = EmptyFn
    /\ srv_card_states = EmptyFn
    /\ probe = [op |-> "card", new |-> DefaultState]

\* submit_review of the desktop on the card
LocalReview(v) ==
    /\ probe.new.reviews_count < MaxCardReviews
    /\ probe.new.interval_days <= MaxInterval
    /\ probe' = Reviewed("submit_review", probe.new, v, RatingOrGood(v), v)
    /\ UNCHANGED <<lockVars, disk, engVars, task, devVars, srvVars, clock>>

\* POST /api/study/review on the card
SrvReview(v) ==
    /\ probe.new.reviews_count < MaxCardReviews
    /\ probe.new.interval_days <= MaxInterval
    /\ probe' = Reviewed("review", probe.new, v, RatingOrGood(AsU8(v)), v)
    /\ UNCHANGED <<lockVars, disk, engVars, task, devVars, srvVars, clock>>

NextReview ==
    \/ \E v \in LocalSubmitted : LocalReview(v)
    \/ \E v \in SrvSubmitted : SrvReview(v)

ReviewSpec == InitReview /\ [][NextReview]_vars

\* --------------------------------------------------------- deck settings
\* the overrides of DbDeckSettings and the values a request may give them;
\* an Option is << >> for None and <<v>> for Some(v)
DeckFields ==
    {"algorithm", "rating_scale", "matching_mode", "fuzzy_threshold", "new_cards_per_day",
     "reviews_per_day"}

FieldValues(f) ==
    IF f = "algorithm" THEN {"sm2", "fsrs"}
    ELSE IF f = "rating_scale" THEN {"2point"}
    ELSE IF f = "matching_mode" THEN {"exact"}
    ELSE IF f = "fuzzy_threshold" THEN {"0.9"}
    ELSE IF f = "new_cards_per_day" THEN {"10"}
    ELSE {"100"}

\* UpdateDeckSettingsRequest: a field the body does not mention is None
DeckRequests ==
    {r \in [DeckFields -> {<< >>, <<"sm2">>, <<"fsrs">>, <<"2point">>, <<"exact">>, <<"0.9">>,
                           <<"10">>, <<"100">>}] :
        \A f \in DeckFields : r[f] = << >> \/ r[f][1] \in FieldValues(f)}

NoOverrides == [f \in DeckFields |-> << >>]

\* the deck_settings row of the deck, if there is one
NoDeckRow == [stored |-> FALSE, overrides |-> NoOverrides]

\* get_deck_settings(..).unwrap_or_else(|| DbDeckSettings { all None })
get_deck_settings(row) == IF row.stored THEN row.overrides ELSE NoOverrides

\* update_deck: "Apply updates (None values clear the override)"
ApplyUpdates(current, request) == [f \in DeckFields |-> request[f]]

\* upsert_deck_settings
upsert_deck_settings(overrides) == [stored |-> TRUE, overrides |-> overrides]

InitSettings ==
    /\ disk = [i \in 1..Len(PathList) |-> F_NoId]
    /\ engine = 0
    /\ guard = NoGuards
    /\ thread = NoThreads
    /\ status = [e \in Engines |-> Idle]
    /\ pending_updated_files = [e \in Engines |-> << >>]
    /\ task = [t \in Tasks |-> IdleTask]
    /\ pending_reviews = << >>
    /\ sync_state = [last_sync_at |-> NoTime, pending_changes |-> 0]
    /\ cards = EmptyFn
    /\ srv_cards = EmptyFn
    /\ card_id_seq = 0
    /\ srv_reviews = [r \in 1..MaxReviews |-> 0]
    /\ acked = {}
    /\ clock = 1
    /\ card_states = EmptyFn
    /\ srv_card_states = EmptyFn
    /\ probe = [op |-> "settings", deck |-> NoDeckRow]

\* PUT /api/settings/deck/:path
update_deck(request) ==
    /\ probe' = [op |-> "update_deck", request |-> request,
                 before |-> get_deck_settings(probe.deck),
                 deck |-> upsert_deck_settings(ApplyUpdates(get_deck_settings(probe.deck),
                                                            request))]
    /\ UNCHANGED <<lockVars, disk, engVars, task, devVars, srvVars, clock>>

\* DELETE /api/settings/deck/:path
delete_deck ==
    /\ probe' = [op |-> "delete_deck", deck |-> NoDeckRow]
    /\ UNCHANGED <<lockVars, disk, engVars, task, devVars, srvVars, clock>>

NextSettings == (\E request \in DeckRequests : update_deck(request)) \/ delete_deck

SettingsSpec == InitSettings /\ [][NextSettings]_vars

\* -------------------------------------------------------- authentication
\* the tokens create_device may generate, and the Authorization headers of
\* the requests: none, or a text made of a first part and a rest
Tokens == {"t1", "t2"}
NoHeader == << >>
Headers == {NoHeader} \cup {<<p, t>> : p \in {"Bearer ", "bearer ", ""}, t \in Tokens \cup {""}}

\* the routes behind the middleware
ProtectedRoutes ==
    {[method |-> "GET", path |-> "/api/device/status"],
     [method |-> "GET", path |-> "/api/study/queue"],
     [method |-> "POST", path |-> "/api/study/review"],
     [method |-> "GET", path |-> "/api/settings"],
     [method |-> "PUT", path |-> "/api/settings/global"],
     [method |-> "PUT", path |-> "/api/settings/deck/{path}"],
     [method |-> "DELETE", path |-> "/api/settings/deck/{path}"],
     [method |-> "GET", path |-> "/api/decks"],
     [method |-> "GET", path |-> "/api/decks/{path}/stats"],
     [method |-> "POST", path |-> "/api/sync/pull"],
     [method |-> "POST", path |-> "/api/sync/push-reviews"],
     [method |-> "POST", path |-> "/api/sync/confirm-delete"],
     [method |-> "POST", path |-> "/api/sync/upload"]}

\* the handlers that change data of the device (the others read it)
Writes(route) == route.method # "GET" /\ route.path # "/api/sync/pull"

\* what the middleware decides: the request is answered 401, or passed to
\* the handler with the AuthenticatedDevice
Unauthorized == [pass |-> FALSE, device |-> ""]
Authenticated(device) == [pass |-> TRUE, device |-> device]

\* a faulty auth_middleware: the token is not looked up
auth_middleware_unchecked(devices, path, header) ==
    IF path = "/api/device/register" \/ path = "/health" THEN Authenticated("")
    ELSE IF header = NoHeader THEN Unauthorized
    ELSE IF header[1] # "Bearer " THEN Unauthorized
    ELSE Authenticated(header[2])

\* auth_middleware: header present, strip_prefix("Bearer "),
\* get_device_by_token
auth_middleware(devices, path, header) ==
    IF path = "/api/device/register" \/ path = "/health" THEN Authenticated("")
    ELSE IF header = NoHeader THEN Unauthorized
    ELSE IF header[1] # "Bearer " THEN Unauthorized
    ELSE IF header[2] \notin devices THEN Unauthorized
    ELSE Authenticated(header[2])

\* the server after the request: a is the decision of the middleware; a
\* handler that ran has read the data of a.device, and changed it if it
\* writes; update_last_seen precedes it
Served(p, route, header, a, now) ==
    [op |-> "request", route |-> route, header |-> header, devices |-> p.devices,
     status |-> IF a.pass THEN 200 ELSE 401,
     ran |-> a.pass,
     data_before |-> p.data,
     data |-> IF a.pass /\ a.device \in p.devices /\ Writes(route)
              THEN [p.data EXCEPT ![a.device] = @ + 1] ELSE p.data,
     last_seen_before |-> p.last_seen,
     last_seen |-> IF a.pass /\ a.device \in p.devices
                   THEN [p.last_seen EXCEPT ![a.device] = now] ELSE p.last_seen]

InitAuth ==
    /\ disk = [i \in 1..Len(PathList) |-> F_NoId]
    /\ engine = 0
    /\ guard = NoGuards
    /\ thread = NoThreads
    /\ status = [e \in Engines |-> Idle]
    /\ pending_updated_files = [e \in Engines |-> << >>]
    /\ task = [t \in Tasks |-> IdleTask]
    /\ pending_reviews = << >>
    /\ sync_state = [last_sync_at |-> NoTime, pending_changes |-> 0]
    /\ cards = EmptyFn
    /\ srv_cards = EmptyFn
    /\ card_id_seq = 0
    /\ srv_reviews = [r \in 1..MaxReviews |-> 0]
    /\ acked = {}
    /\ clock = 1
    /\ card_states = EmptyFn
    /\ srv_card_states = EmptyFn
    /\ probe = [op |-> "server", devices |-> {}, data |-> [t \in Tokens |-> 0],
                last_seen |-> [t \in Tokens |-> NoTime]]

\* POST /api/device/register: create_device with a fresh token
register ==
    /\ \E t \in Tokens \ probe.devices :
          probe' = [op |-> "register", devices |-> probe.devices \cup {t}, data |-> probe.data,
                    last_seen |-> probe.last_seen]
    /\ UNCHANGED <<lockVars, disk, engVars, task, devVars, srvVars, clock>>

\* a request on a protected route
ProtectedRequest(route, header) ==
    /\ \A t \in Tokens : probe.data[t] < MaxSeq
    /\ probe' = Served(probe, route, header,
                       auth_middleware(probe.devices, route.path, header), clock)
    /\ UNCHANGED <<lockVars, disk, engVars, task, devVars, srvVars, clock>>

NextAuth ==
    \/ register
    \/ \E route \in ProtectedRoutes, header \in Headers : ProtectedRequest(route, header)

AuthSpec == InitAuth /\ [][NextAuth]_vars

\* ------------------------------------------------------- the file watcher
\* the row import_cards writes: deleted_at is not among its columns
LocalCard(deck_path, raw, source_file) ==
    [deck_path |-> deck_path, question |-> raw.question, answer |-> raw.answer,
     source_file |-> source_file, deleted_at |-> NoTime]

\* last_insert_rowid() of an INSERT without id into cards (INTEGER PRIMARY
\* KEY): one more than the largest rowid
last_insert_rowid(rows) ==
    IF DOMAIN rows = {} THEN 1
    ELSE (CHOOSE x \in DOMAIN rows : \A y \in DOMAIN rows : y <= x) + 1

\* import_cards, one card: INSERT OR REPLACE INTO cards under the id, then
\* INSERT OR IGNORE INTO card_states (card_id); st is [cards, card_states]
ImportCard(st, id, row) ==
    [cards |-> [i \in DOMAIN st.cards \cup {id} |-> IF i = id THEN row ELSE st.cards[i]],
     card_states |-> [i \in DOMAIN st.card_states \cup {id} |->
                         IF i \in DOMAIN st.card_states THEN st.card_states[i]
                         ELSE DefaultState]]

\* SqliteRepository::import_cards, from the i-th card on
RECURSIVE import_cards(_, _, _, _, _)
import_cards(st, deck_path, source_file, raw_cards, i) ==
    IF i > Len(raw_cards) THEN st
    ELSE import_cards(ImportCard(st,
                                 IF raw_cards[i].id # NoId THEN raw_cards[i].id
                                 ELSE last_insert_rowid(st.cards),
                                 LocalCard(deck_path, raw_cards[i], source_file)),
                      deck_path, source_file, raw_cards, i + 1)

\* delete_cards_by_source_file
delete_cards_by_source_file(rows, source_file, now) ==
    [i \in DOMAIN rows |->
        IF rows[i].source_file = source_file /\ rows[i].deleted_at = NoTime
        THEN [rows[i] EXCEPT !.deleted_at = now] ELSE rows[i]]

\* the non-deleted rows of the local table cards
LiveCards(rows) ==
    [i \in {j \in DOMAIN rows : rows[j].deleted_at = NoTime} |-> rows[i]]

\* handle_event has imported what parse made of the file: st is the store
\* that results; again tells that the event before, for this file, was for
\* the same content
Imported(i, r, st) ==
    /\ \A id \in DOMAIN st.cards : id <= MaxLocalCards
    /\ cards' = st.cards
    /\ card_states' = st.card_states
    /\ probe' = [op |-> "import", file |-> i, content |-> disk[i], ok |-> r.err = "",
                 again |-> /\ probe.op = "import"
                           /\ probe.file = i
                           /\ probe.content = disk[i],
                 live_before |-> LiveCards(cards), live_after |-> LiveCards(st.cards),
                 states_before |-> card_states, states_after |-> st.card_states]

\* FileWatcher::handle_event, "created" | "modified": the file is read and
\* parsed; its cards are imported unless the parse failed
HandleModified(i, r) ==
    Imported(i, r, IF r.err = ""
                   THEN import_cards([cards |-> cards, card_states |-> card_states],
                                     PathList[i].dir, PathList[i], r.cards, 1)
                   ELSE [cards |-> cards, card_states |-> card_states])

WatcherModified(i) ==
    /\ HandleModified(i, parse(disk[i]))
    /\ UNCHANGED <<lockVars, disk, engVars, task, pending_reviews, sync_state, srvVars, clock>>

\* FileWatcher::handle_event, "deleted"
WatcherDeleted(i) ==
    /\ cards' = delete_cards_by_source_file(cards, PathList[i], clock)
    /\ probe' = [op |-> "deleted", file |-> i]
    /\ UNCHANGED <<lockVars, disk, engVars, task, pending_reviews, sync_state, card_states, srvVars,
                   clock>>

\* the contents the user gives a watched file: no block, or one
WatchedContents == {Content(Flatten(b), TRUE) : b \in BlockLists(1)}

\* WatcherSpec: the watcher's events for the files, while the user edits
\* them and reviews cards
NextWatcher ==
    \/ \E i \in 1..Len(PathList) : WatcherModified(i)
    \/ \E i \in 1..Len(PathList) : WatcherDeleted(i)
    \/ \E i \in 1..Len(PathList), c \in WatchedContents : EditFile(i, c)
    \/ \E c \in ReviewCards : SubmitReview(c, Good)
    \/ Tick

WatcherSpec == Init /\ [][NextWatcher]_vars

\* ------------------------------------------------------- the two parsers
\* the results of flashcard-core's parse (core) and of the server's
\* parse_md_content (srv) on the file made of the blocks
ParsedBoth(blocks, core, srv) ==
    [op |-> "both", blocks |-> blocks, core_err |-> core.err, core_cards |-> core.cards,
     srv_ok |-> srv.ok, srv_cards |-> srv.cards]

\* the file is imported on the device (FileWatcher::handle_event) and
\* uploaded to the server
ParseBoth ==
    /\ probe.op = "input"
    /\ probe' = ParsedBoth(probe.blocks, parse(Content(Flatten(probe.blocks), FALSE)),
                           parse_md_content(Content(Flatten(probe.blocks), FALSE)))
    /\ UNCHANGED <<lockVars, disk, engVars, task, devVars, srvVars, clock>>

\* ParsersSpec: a file made of blocks is given to both parsers
NextParsers == ParseBoth

ParsersSpec == InitCore /\ [][NextParsers]_vars

\* ------------------------------------------------- an upload and its repeat
\* the device's side of a rewritten file: the content of updated_files for
\* the path, or the content sent when the path is not among them
ReturnedContent(file, updated_files) ==
    LET hits == {j \in 1..Len(updated_files) : updated_files[j].path = file.path} IN
    IF hits = {} THEN file.content
    ELSE updated_files[CHOOSE j \in hits : \A h \in hits : h <= j].content

\* the upload handler has answered r to the file, round being "first" or
\* "second"
Answered(round, file, r) ==
    /\ r.seq <= MaxSeq
    /\ srv_cards' = r.cards
    /\ card_id_seq' = r.seq
    /\ probe' = [op |-> round, content |-> file.content, ok |-> r.ok, new_ids |-> r.new_ids,
                 orphaned_cards |-> r.orphaned_cards,
                 returned |-> ReturnedContent(file, r.updated_files)]

\* POST /api/sync/upload of one file of the device
UploadOf(round, file) ==
    Answered(round, file, upload(srv_cards, card_id_seq, <<file>>, Device, clock))

\* the first upload of a content, to the server that holds nothing yet
FirstUpload ==
    /\ probe.op = "content"
    /\ UploadOf("first", [path |-> PathList[1], content |-> probe.content])
    /\ UNCHANGED <<lockVars, disk, engVars, task, devVars, srv_reviews, acked, srv_card_states, clock>>

\* the upload of what the first upload returned for the file
SecondUpload ==
    /\ probe.op = "first"
    /\ probe.ok
    /\ UploadOf("second", [path |-> PathList[1], content |-> probe.returned])
    /\ UNCHANGED <<lockVars, disk, engVars, task, devVars, srv_reviews, acked, srv_card_states, clock>>

\* RepeatSpec: a content is uploaded, then what the server returned for it
NextRepeat == FirstUpload \/ SecondUpload

RepeatSpec == InitInject /\ [][NextRepeat]_vars

\* ------------------------------------------------------------ two devices
\* the devices registered with the server: Device and another one
Devices == {Device, "B"}

\* the upload handler has answered r to a request authenticated as dev
DevUploaded(dev, blocks, r) ==
    /\ r.seq <= MaxSeq
    /\ srv_cards' = r.cards
    /\ card_id_seq' = r.seq
    /\ probe' = [op |-> "upload", device |-> dev, blocks |-> blocks, ok |-> r.ok]

\* POST /api/sync/upload of one file, authenticated as dev
DevUpload(dev, blocks) ==
    /\ DevUploaded(dev, blocks,
                   upload(srv_cards, card_id_seq, <<BlockFile(blocks)>>, dev, clock))
    /\ UNCHANGED <<lockVars, disk, engVars, task, devVars, srv_reviews, acked, srv_card_states, clock>>

\* POST /api/sync/confirm-delete, authenticated as dev (_auth is not read)
DevConfirmDelete(dev, card_ids) ==
    /\ srv_cards' = soft_delete_cards(srv_cards, card_ids, clock)
    /\ probe' = [op |-> "confirm_delete", device |-> dev, card_ids |-> card_ids]
    /\ UNCHANGED <<lockVars, disk, engVars, task, devVars, card_id_seq, srv_reviews, acked,
                   srv_card_states, clock>>

\* TenantSpec: upload and confirm-delete requests of the two devices
NextTenant ==
    \/ \E dev \in Devices, blocks \in BlockLists(MaxBlocks) : DevUpload(dev, blocks)
    \/ \E dev \in Devices, card_ids \in SUBSET (1..MaxSeq) : DevConfirmDelete(dev, card_ids)
    \/ Tick

TenantSpec == Init /\ [][NextTenant]_vars

\* StudySpec: the commands one after the other, while cards are reviewed on
\* the device and, for the same device, through the server's study API
NextStudy ==
    \/ Commands({1})
    \/ \E c \in ReviewCards, r \in Ratings : SubmitReview(c, r)
    \/ \E c \in ReviewCards, r \in Ratings : ServerReview(c, r)

StudySpec == Init /\ [][NextStudy]_vars

TypeOK ==
    /\ engine \in {0} \cup Engines
    /\ card_id_seq \in 0..MaxSeq
    /\ clock \in 1..MaxClock
    /\ Len(pending_reviews) <= MaxReviews

\* ------------------------------------------------------------------ claims
\* the steps of a cycle that are an HTTP request
HttpPcs == {"health", "upload", "push", "pull"}

\* a command is inside a sync cycle from its own set_status(Syncing ..) to
\* its set_status(Completed ..)
InCycle(t) ==
    \/ task[t].pc \in {"health", "upload", "readBatch", "push", "mark", "setPulling",
                       "pull", "apply", "updateSyncState", "setCompleted"}
    \/ task[t].pc = "setPushing" /\ task[t].cmd = "start_sync"

\* C1: at most one sync cycle is in a Syncing substate at any time: a
\* start_sync issued while another cycle is in flight is turned away before it
\* sets a Syncing status of its own.
C1_OneCycleSyncing == Cardinality({t \in Tasks : InCycle(t)}) <= 1

\* C2: whenever an HTTP request of a cycle (health, upload, push, pull) fails,
\* which ends the command, the status of its engine becomes Failed.
C2_FailedOnHttpError ==
    [][\A t \in Tasks :
          (task[t].pc \in HttpPcs /\ task'[t].pc = "idle")
              => status'[task[t].eng].type = "Failed"]_vars

\* the reviews of the local queue not yet marked synced
Unsynced(reviews) == {reviews[i].id : i \in {j \in 1..Len(reviews) : ~reviews[j].synced}}

\* C3: a review becomes synced locally only when a push that carried it has
\* returned 2xx; and a push that fails (it adds nothing to the server's
\* reviews) ends its command and leaves every review as it was, so that the
\* command marks none of its batch.
C3_SyncedOnlyAfterAck ==
    [][/\ \A i \in 1..Len(pending_reviews) :
             (~pending_reviews[i].synced /\ pending_reviews'[i].synced)
                 => pending_reviews[i].id \in acked
       /\ \A t \in Tasks :
             (task[t].pc = "push" /\ task'[t].pc # "push" /\ srv_reviews' = srv_reviews)
                 => /\ task'[t].pc = "idle"
                    /\ pending_reviews' = pending_reviews]_vars

\* a review has been marked synced, the push that carried it acknowledged
C3_Witness ==
    \E i \in 1..Len(pending_reviews) :
        pending_reviews[i].synced /\ pending_reviews[i].id \in acked

C5_WatermarkOnlyAfterFullApply ==
    [][sync_state'.last_sync_at # sync_state.last_sync_at
          => \E t \in Tasks : task[t].pc = "updateSyncState" /\ ~task[t].apply_err]_vars

\* C6: every id the server allocates for an ID-less card differs from the id
\* of every card of the server, however that card's id was introduced.
C6_NoIdReuse ==
    [][\A t \in Tasks :
          task[t].pc = "upload"
              => \A id \in (card_id_seq + 1)..card_id_seq' : id \notin DOMAIN srv_cards]_vars

\* C7: when confirm_orphan_deletion succeeds while the engine is in
\* AwaitingOrphanConfirmation, the command goes on into the paused cycle at
\* PushingReviews, as skip_orphan_deletion does.
C7_ConfirmResumes ==
    [][\A t \in Tasks :
          (/\ task[t].pc = "confirm"
           /\ status[task[t].eng].type = "AwaitingOrphanConfirmation"
           /\ task'[t].pc # "confirm"
           /\ srv_cards' # srv_cards)
              => task'[t].pc = "setPushing"]_vars

\* the steps that push, pull, apply or write sync_state
EffectPcs == {"readBatch", "push", "mark", "setPulling", "pull", "apply", "updateSyncState",
              "setCompleted"}

\* C8: when an upload returns orphans, the cycle halts: the status becomes
\* AwaitingOrphanConfirmation, the command only has to return, and the step
\* touches neither the local store nor the server's reviews; and while an
\* engine is in AwaitingOrphanConfirmation none of its commands is at a step
\* that pushes, pulls, applies or writes sync_state.
C8_HaltsOnOrphans ==
    [][/\ \A t \in Tasks :
             (/\ task[t].pc = "upload"
              /\ task'[t].pc \notin {"upload", "idle"}
              /\ upload(srv_cards, card_id_seq, task[t].files, Device, clock).orphaned_cards # {})
                 => /\ status'[task[t].eng].type = "AwaitingOrphanConfirmation"
                    /\ task'[t].pc = "ret"
                    /\ UNCHANGED <<pending_reviews, sync_state, cards, srv_reviews>>
       /\ \A t \in Tasks :
             (task'[t].pc # "idle"
              /\ status'[task'[t].eng].type = "AwaitingOrphanConfirmation")
                 => task'[t].pc \notin EffectPcs]_vars

\* the engine of the command was dropped by cancel_sync
Cancelled(t) == task[t].pc # "idle" /\ task[t].eng # engine

\* C9: after cancel_sync the cancelled cycle completes no HTTP request and
\* writes nothing to the local store or to the server.
C9_NoEffectAfterCancel ==
    [][\A t \in Tasks :
          (Cancelled(t) /\ task'[t] # task[t])
              => /\ ~(task[t].pc \in HttpPcs /\ task'[t].pc # "idle")
                 /\ UNCHANGED <<pending_reviews, sync_state, cards, srv_cards, card_id_seq,
                                srv_reviews>>]_vars

\* C10: when the command of a Completed cycle returns, every file of
\* updated_files is on disk with its injected ID lines.
C10_UpdatedFilesWritten ==
    [][\A t \in Tasks :
          (/\ task[t].pc = "ret"
           /\ status[task[t].eng].type = "Completed"
           /\ task'[t].pc = "idle")
              => \A i \in 1..Len(task[t].updated_files) :
                    \E j \in 1..Len(PathList) :
                        /\ PathList[j] = task[t].updated_files[i].path
                        /\ disk'[j] = task[t].updated_files[i].content]_vars

\* C11: when card y was soft-deleted on the server after the device's stored
\* last_sync_at and the device still holds a non-deleted copy of it, a pull
\* that carries that last_sync_at returns y with deleted_at set.
C11_TombstonePulled ==
    [][\A t \in Tasks :
          (/\ task[t].pc = "pull"
           /\ task'[t].pc = "apply"
           /\ task[t].last_sync = sync_state.last_sync_at)
              => \A y \in DOMAIN srv_cards :
                    (/\ srv_cards[y].device_id = Device
                     /\ srv_cards[y].deleted_at > task[t].last_sync
                     /\ y \in DOMAIN cards
                     /\ cards[y].deleted_at = NoTime)
                        => \E j \in 1..Len(task'[t].pulled) :
                              /\ task'[t].pulled[j].id = y
                              /\ task'[t].pulled[j].deleted_at # NoTime]_vars

\* C12: the reviews_count and the lapses of a card's stored state on the
\* device never decrease, whatever the step: a local review, a review on the
\* server, a step of a sync cycle.
C12_CountsNeverDecrease ==
    [][\A c \in DOMAIN card_states :
          /\ c \in DOMAIN card_states'
          /\ card_states'[c].reviews_count >= card_states[c].reviews_count
          /\ card_states'[c].lapses >= card_states[c].lapses]_vars

\* C13: pending_changes is reset to zero only once the cycle has made its
\* transition to Completed: the engine of the command that resets it is in
\* Completed, and still the handle's engine, when the reset happens.
C13_ResetOnlyAfterCompleted ==
    [][(sync_state.pending_changes # 0 /\ sync_state'.pending_changes = 0)
          => \E t \in Tasks :
                /\ task'[t] # task[t]
                /\ task[t].eng = engine
                /\ status[task[t].eng].type = "Completed"]_vars

\* C14: the cycle that reports Completed has moved last_sync_at forward
\* (strictly, when the clock has passed the old value: two instants of one
\* tick of the model's clock are not ordered), and pending_changes is 0 when
\* Completed is reported.
C14_CompletedAdvancesWatermark ==
    [][\A t \in Tasks :
          /\ (task[t].pc = "updateSyncState" /\ task'[t].pc = "setCompleted")
                => /\ sync_state'.last_sync_at >= sync_state.last_sync_at
                   /\ clock > sync_state.last_sync_at
                         => sync_state'.last_sync_at > sync_state.last_sync_at
          /\ (task[t].pc = "setCompleted" /\ task'[t].pc = "ret")
                => /\ status'[task[t].eng].type = "Completed"
                   /\ sync_state'.pending_changes = 0]_vars

\* the place of a status in the order of the phases of a cycle
StageRank(st) ==
    CASE st.type = "Idle" -> 0
      [] st.type = "Failed" -> 0
      [] st.type = "AwaitingOrphanConfirmation" -> 3
      [] st.type = "Completed" -> 8
      [] st.type = "Syncing" ->
            CASE st.stage = "Connecting" -> 1
              [] st.stage = "UploadingFiles" -> 2
              [] st.stage = "PushingReviews" -> 4
              [] st.stage = "PullingState" -> 5
              [] st.stage = "ApplyingChanges" -> 6
              [] st.stage = "WritingFiles" -> 7

\* C15: the status of an engine moves through the phases in their order:
\* every change of status goes to a later phase of the cycle, or begins a
\* cycle (Connecting), or ends one (Failed; Idle when the engine is dropped).
C15_PhasesInOrder ==
    [][\A e \in Engines :
          status'[e] # status[e]
              => \/ status'[e].type \in {"Failed", "Idle"}
                 \/ status'[e] = Syncing("Connecting")
                 \/ StageRank(status'[e]) > StageRank(status[e])]_vars

\* the ids on the ID lines of the blocks
IdLineIds(blocks) == {blocks[i][1].n : i \in {j \in 1..Len(blocks) : blocks[j][1].k = "ID"}}

\* the line of the Q line of the i-th of blocks that have no ID line
QLineOf(i) == 2 * i - 1

\* C16: the upload of a file made of N complete Q/A blocks with no ID line
\* allocates N pairwise distinct ids, one new_ids entry per block at the line
\* of the block's Q line, and stores the N cards.
C16_OneIdPerBlock ==
    (/\ probe.op = "upload"
     /\ \A i \in 1..Len(probe.blocks) : probe.blocks[i][1].k = "Q")
        => /\ Len(probe.new_ids) = Len(probe.blocks)
           /\ \A i, j \in 1..Len(probe.new_ids) :
                 i # j => probe.new_ids[i].id # probe.new_ids[j].id
           /\ \A i \in 1..Len(probe.new_ids) :
                 /\ probe.new_ids[i].line = QLineOf(i)
                 /\ probe.new_ids[i].id \in DOMAIN srv_cards
                 /\ srv_cards[probe.new_ids[i].id].question_text = <<probe.blocks[i][1].s>>

\* C17: the orphaned_cards of an upload are the non-deleted cards of the
\* device whose id no card of the uploaded file carries (on an ID line or
\* newly allocated); and every card that was there before the upload, is not
\* deleted and whose id is on no ID line of the file is reported.
C17_OrphansExact ==
    probe.op = "upload"
        => /\ {o.id : o \in probe.orphaned_cards} =
                 {y \in DOMAIN srv_cards :
                     /\ srv_cards[y].device_id = Device
                     /\ srv_cards[y].deleted_at = NoTime
                     /\ y \notin IdLineIds(probe.blocks)
                     /\ y \notin {probe.new_ids[i].id : i \in 1..Len(probe.new_ids)}}
           /\ \A y \in probe.ids_before :
                 (/\ srv_cards[y].device_id = Device
                  /\ srv_cards[y].deleted_at = NoTime
                  /\ y \notin IdLineIds(probe.blocks))
                     => y \in {o.id : o \in probe.orphaned_cards}

\* every block of the file has an ID line whose id the server knew
AllKnown(blocks, known) == \A i \in 1..Len(blocks) : blocks[i][1].k = "ID" /\ blocks[i][1].n \in known

SameCard(block, y, c) ==
    /\ block[1] = IdLine(y)
    /\ c.question_text = <<block[2].s>>
    /\ c.answer_text = <<block[3].s>>

\* C19: a soft-deleted card becomes non-deleted only in an upload that
\* carries its id with the content it has; and an upload of one block that
\* carries the id of a deleted card with its content clears deleted_at.
C19_RevivedOnlyBySameContent ==
    [][\A y \in DOMAIN srv_cards :
          /\ (srv_cards[y].deleted_at # NoTime /\ srv_cards'[y].deleted_at = NoTime)
                => /\ probe'.op = "upload"
                   /\ \E i \in 1..Len(probe'.blocks) :
                         SameCard(probe'.blocks[i], y, srv_cards[y])
          /\ (/\ srv_cards[y].deleted_at # NoTime
              /\ probe'.op = "upload"
              /\ probe' # probe
              /\ Len(probe'.blocks) = 1
              /\ SameCard(probe'.blocks[1], y, srv_cards[y]))
                => srv_cards'[y].deleted_at = NoTime]_vars

\* the id a block carries, and the text of its Q line
BlockId(block) == IF block[1].k = "ID" THEN block[1].n ELSE NoId
BlockQ(block) == IF block[1].k = "ID" THEN block[2].s ELSE block[1].s

\* C20: parse gives one card per block, in file order: for a file made of k
\* complete blocks whose ids differ, k cards, the i-th with the id and the
\* question of the i-th block.
C20_OneCardPerBlock ==
    (/\ probe.op = "parse"
     /\ \A i \in 1..Len(probe.blocks) : probe.blocks[i] \in CompleteBlocks
     /\ \A i, j \in 1..Len(probe.blocks) :
           (i # j /\ BlockId(probe.blocks[i]) # NoId)
               => BlockId(probe.blocks[i]) # BlockId(probe.blocks[j]))
        => /\ probe.err = ""
           /\ Len(probe.cards) = Len(probe.blocks)
           /\ \A i \in 1..Len(probe.cards) :
                 /\ probe.cards[i].id = BlockId(probe.blocks[i])
                 /\ probe.cards[i].question = <<BlockQ(probe.blocks[i])>>

\* C21: a file in which two cards carry the same id is rejected: parse of
\* complete blocks two of which have the same id on their ID: lines ends with
\* DuplicateId and gives no card.
C21_DuplicateIdRejected ==
    (/\ probe.op = "parse"
     /\ \A i \in 1..Len(probe.blocks) : probe.blocks[i] \in CompleteBlocks
     /\ \E i, j \in 1..Len(probe.blocks) :
           /\ i < j
           /\ BlockId(probe.blocks[i]) # NoId
           /\ BlockId(probe.blocks[i]) = BlockId(probe.blocks[j]))
        => (probe.err = "DuplicateId" /\ probe.cards = << >>)

\* C22: an ID: line with an empty body is as no ID: line: parse of the one
\* block opened by such a line succeeds and gives the card of the block, with
\* no id.
C22_EmptyIdIsAbsentId ==
    (probe.op = "parse" /\ probe.blocks = <<EmptyIdBlock>>)
        => /\ probe.err = ""
           /\ Len(probe.cards) = 1
           /\ probe.cards[1].id = NoId
           /\ probe.cards[1].question = <<BlockQ(EmptyIdBlock)>>

NoIdLines(content) == \A i \in 1..Len(content.lines) : content.lines[i].k # "ID"

\* C23: for a content without ID: lines that parses, giving each parsed card
\* a new id at the line it starts at, injecting the ids and parsing again
\* succeeds and yields the same cards in the same order (same questions and
\* answers), each with the id assigned to it.
C23_InjectThenParse ==
    (probe.op = "round_trip" /\ NoIdLines(probe.content) /\ probe.first_ok)
        => /\ probe.second_ok
           /\ Len(probe.second_cards) = Len(probe.first_cards)
           /\ \A i \in 1..Len(probe.first_cards) :
                 /\ probe.second_cards[i].question = probe.first_cards[i].question
                 /\ probe.second_cards[i].answer = probe.first_cards[i].answer
                 /\ probe.second_cards[i].id = probe.new_ids[i].id

\* the lines of the content named by an assignment, and those up to line i
MappedLines(content, new_ids) ==
    {new_ids[j].line : j \in 1..Len(new_ids)} \cap (1..Len(content.lines))

MappedUpTo(content, new_ids, i) == Cardinality(MappedLines(content, new_ids) \cap (1..i))

\* C24: an injection only inserts ID: lines: the output has the lines of the
\* input, unchanged and in order, one ID: line right before each mapped line
\* and nothing else, and ends with a newline exactly when the input does.
C24_InjectionIsPatch ==
    (probe.op \in {"inject_ids", "regenerate"})
        => /\ probe.out.nl = probe.content.nl
           /\ Len(probe.out.lines) = Len(probe.content.lines)
                  + Cardinality(MappedLines(probe.content, probe.new_ids))
           /\ \A i \in 1..Len(probe.content.lines) :
                 /\ probe.out.lines[i + MappedUpTo(probe.content, probe.new_ids, i)]
                        = probe.content.lines[i]
                 /\ i \in MappedLines(probe.content, probe.new_ids)
                      => probe.out.lines[i + MappedUpTo(probe.content, probe.new_ids, i) - 1].k = "ID"

\* the day that counts as today when the queue of p is asked: the day before
\* the wall-clock day while the hour is below daily_reset_hour
StudyDay(p) == IF p.hour < p.daily_reset_hour THEN Today - 1 ELSE Today

\* the cards of p that are to be reviewed
ToReview(p) ==
    {c \in DOMAIN p.rows : /\ ~p.rows[c].deleted
                           /\ p.rows[c].status \in {"review", "learning", "relearning"}
                           /\ p.rows[c].due <= StudyDay(p)}

\* C25: the review queue holds exactly the non-deleted cards in review,
\* learning or relearning that are due on or before the study day (the day
\* before the wall-clock day while the hour is below daily_reset_hour), by due
\* date ascending, cut to review_limit.
C25_ReviewQueue ==
    (probe.op = "get_due_cards")
        => /\ \A i \in DOMAIN probe.review_cards : probe.review_cards[i] \in ToReview(probe)
           /\ Len(probe.review_cards) = MinOf(probe.review_limit, Cardinality(ToReview(probe)))
           /\ \A i, j \in DOMAIN probe.review_cards :
                 i < j => /\ probe.review_cards[i] # probe.review_cards[j]
                          /\ probe.rows[probe.review_cards[i]].due
                                <= probe.rows[probe.review_cards[j]].due

\* C26: the rating of every stored review event is one of 1..4: the event of
\* a review submitted with an unrecognized rating is recorded with Good.
C26_EventRatingInRange ==
    (probe.op = "review") => probe.event_rating \in 1..4

\* C29: schedule follows the SM-2 table. From new or learning: Again or Hard
\* give learning with interval 0, Good gives review with interval 1, Easy
\* review with interval 4, ease and lapses unchanged. From review or
\* relearning: Again gives relearning with interval 1, the ease lowered by 0.2
\* but not below the minimum, one lapse more; any other rating gives review
\* with the lapses unchanged. reviews_count grows by one on every call.
C29_Sm2Table ==
    (probe.op = "review")
        => /\ probe.new.reviews_count = probe.old.reviews_count + 1
           /\ (probe.old.status \in {"new", "learning"})
                 => /\ probe.new.ease_factor = probe.old.ease_factor
                    /\ probe.new.lapses = probe.old.lapses
                    /\ probe.rating \in {Again, Hard}
                          => (probe.new.status = "learning" /\ probe.new.interval_days = 0)
                    /\ probe.rating = Good
                          => (probe.new.status = "review" /\ probe.new.interval_days = 100)
                    /\ probe.rating = Easy
                          => (probe.new.status = "review" /\ probe.new.interval_days = 400)
           /\ (probe.old.status \in {"review", "relearning"} /\ probe.rating = Again)
                 => /\ probe.new.status = "relearning"
                    /\ probe.new.interval_days = 100
                    /\ probe.new.ease_factor
                          = (IF probe.old.ease_factor - 20 < 130 THEN 130
                             ELSE probe.old.ease_factor - 20)
                    /\ probe.new.lapses = probe.old.lapses + 1
           /\ (probe.old.status \in {"review", "relearning"} /\ probe.rating # Again)
                 => /\ probe.new.status = "review"
                    /\ probe.new.lapses = probe.old.lapses

\* a card in review has lapsed a second time, its ease lowered by 0.2
C29_Witness ==
    /\ probe.op = "review"
    /\ probe.old.status = "review"
    /\ probe.rating = Again
    /\ probe.new.lapses = 2
    /\ probe.new.ease_factor = probe.old.ease_factor - 20

C27_PartialDeckUpdate ==
    (probe.op = "update_deck")
        => \A f \in DeckFields :
             probe.deck.overrides[f]
                = (IF probe.request[f] = << >> THEN probe.before[f] ELSE probe.request[f])

\* C28: a request on a protected route whose bearer token is missing,
\* malformed or unknown is answered 401 and no handler runs: the data and the
\* last_seen of every device are as before.
C28_UnauthorizedRejected ==
    (/\ probe.op = "request"
     /\ \/ probe.header = NoHeader
        \/ probe.header[1] # "Bearer "
        \/ probe.header[2] \notin probe.devices)
        => /\ probe.status = 401
           /\ ~probe.ran
           /\ probe.data = probe.data_before
           /\ probe.last_seen = probe.last_seen_before

\* a writing request with the token of no device, while a device with data
\* is registered, was answered 401
C28_Witness ==
    /\ probe.op = "request"
    /\ Writes(probe.route)
    /\ probe.header = <<"Bearer ", "t2">>
    /\ probe.devices = {"t1"}
    /\ probe.data["t1"] > 0
    /\ probe.status = 401

\* C31: when a sync call (start_sync past its status check, or
\* skip_orphan_deletion) returns, whatever the phase it returns from and
\* whether with Ok or with an error, the status of its engine is not a
\* Syncing substate, so that the next start_sync passes the status check.
C31_ReturnedNotSyncing ==
    [][\A t \in Tasks :
          (/\ task[t].cmd \in {"start_sync", "skip_orphan_deletion"}
           /\ task[t].pc \notin {"idle", "check"}
           /\ task'[t].pc = "idle")
              => ~IsSyncing(status'[task[t].eng])]_vars

\* C32: whenever the pending_changes of sync_state is 0, no row of
\* pending_reviews has synced = false.
C32_ZeroMeansNothingPending ==
    sync_state.pending_changes = 0 => Unsynced(pending_reviews) = {}

\* C33: no review of the local queue has more than one row in the server's
\* reviews, whatever the cycles did: failed, answered unreadably after a 2xx
\* push, cancelled, or run at the same time.
C33_StoredAtMostOnce == \A r \in 1..MaxReviews : srv_reviews[r] <= 1

\* the fields of a CardState the model keeps
StateFields == {"status", "interval_days", "ease_factor", "lapses", "reviews_count"}

\* C34: no change made on the server to a card state of the device is left
\* behind the watermark.  When a cycle whose apply succeeded sets last_sync_at,
\* every server row of a card not reviewed on the device either is already on
\* the device as the server has it, or bears an updated_at after the new
\* last_sync_at, so that the pull of a later cycle returns it; a row changed
\* between the cycle's pull and this step is among them.  (A change made in
\* that window bears a time up to the watermark's, the watermark being taken
\* after it.)
C34_NothingBehindWatermark ==
    [][\A t \in Tasks :
          (/\ task[t].pc = "updateSyncState"
           /\ task'[t].pc # "updateSyncState"
           /\ ~task[t].apply_err)
              => \A c \in DOMAIN srv_card_states :
                    (\A i \in 1..Len(pending_reviews) : pending_reviews[i].card_id # c)
                        => \/ srv_card_states[c].updated_at > sync_state'.last_sync_at
                           \/ /\ c \in DOMAIN card_states
                              /\ \A f \in StateFields :
                                    card_states[c][f] = srv_card_states[c][f]]_vars

\* C35: a request authenticated as device B, upload or confirm-delete,
\* leaves every card owned by device A as it was (content, owner, deleted_at
\* and the rest of the row), and leaves what a pull of device A returns, for
\* any last_sync_at, as it was.
C35_OtherDeviceCannotTouch ==
    [][(probe'.op \in {"upload", "confirm_delete"} /\ probe'.device = "B")
          => /\ \A i \in DOMAIN srv_cards :
                   srv_cards[i].device_id = Device
                       => i \in DOMAIN srv_cards' /\ srv_cards'[i] = srv_cards[i]
             /\ \A since \in 0..MaxClock :
                   get_cards_since(srv_cards', Device, since)
                       = get_cards_since(srv_cards, Device, since)]_vars

\* C36: skip_orphan_deletion goes on into the cycle (push, pull, apply, the
\* writes of status and local store that come with them) only when the status
\* of the engine is AwaitingOrphanConfirmation; called in any other status it
\* returns without having entered continue_sync_internal.
C36_SkipOnlyWhenAwaiting ==
    [][\A t \in Tasks :
          (task[t].pc = "idle" /\ task'[t].cmd = "skip_orphan_deletion")
              => status[task'[t].eng].type = "AwaitingOrphanConfirmation"]_vars

\* C37: when a file has been uploaded to a server that held nothing, the
\* upload of the content returned for it (the rewritten content of
\* updated_files, or the content sent when the file was not rewritten)
\* succeeds with new_ids empty and no orphaned cards.
C37_UploadFixpoint ==
    probe.op = "second"
        => probe.ok /\ probe.new_ids = << >> /\ probe.orphaned_cards = {}

\* C38: on every input flashcard-core's parse and the server's
\* parse_md_content agree: both fail, or both succeed with the same cards in
\* the same order, each with the same id, question, answer and starting line.
C38_ParsersAgree ==
    probe.op = "both"
        => \/ probe.core_err # "" /\ ~probe.srv_ok
           \/ /\ probe.core_err = ""
              /\ probe.srv_ok
              /\ Len(probe.core_cards) = Len(probe.srv_cards)
              /\ \A i \in 1..Len(probe.core_cards) :
                    /\ probe.core_cards[i].id = probe.srv_cards[i].id
                    /\ probe.core_cards[i].question = probe.srv_cards[i].question
                    /\ probe.core_cards[i].answer = probe.srv_cards[i].answer
                    /\ probe.core_cards[i].line_number = probe.srv_cards[i].line

\* C39: a created/modified event for a file whose content is the content of
\* the event before it leaves the non-deleted rows of the local cards and
\* every row of card_states as they were.
C39_ReimportIdempotent ==
    (probe.op = "import" /\ probe.again)
        => /\ probe.live_after = probe.live_before
           /\ probe.states_after = probe.states_before

\* ---------------------------------------------------------------------
\* Threads taking and releasing the guards.  Every other variable of the
\* model is left alone: the guards order the accesses, they do not change
\* what the accesses do.

appVars == <<disk, task, clock, probe, devVars, srvVars, engVars>>

Cur(th) == Program(thread[th].cmd)[thread[th].pc]
At(th, kind) == thread[th].pc > 0 /\ Cur(th).op = kind
WaitsFor(th, g) == thread[th].waiting /\ Cur(th).guard = g
Holds(th, g) == guard[g].holder = th

\* a MutexGuard is released when it goes out of scope, at the latest on return
Dropped(th, gs) ==
    [g \in Guards |-> IF gs[g].holder = th THEN [gs[g] EXCEPT !.holder = NoHolder] ELSE gs[g]]

\* the thread continues at step n of its program, or returns past its end
After(th, n, gs) ==
    IF n > Len(Program(thread[th].cmd))
    THEN thread' = [thread EXCEPT ![th] = NoThreads[th]] /\ guard' = Dropped(th, gs)
    ELSE thread' = [thread EXCEPT ![th] = [@ EXCEPT !.pc = n, !.waiting = FALSE]] /\ guard' = gs

InvokeCommand(th, cmd) ==
    /\ thread[th].pc = 0
    /\ cmd \in CommandNames[th]
    /\ thread' = [thread EXCEPT ![th] = [cmd |-> cmd, pc |-> 1, waiting |-> FALSE]]
    /\ UNCHANGED <<guard, appVars>>

\* `.lock()` is called: the thread is blocked (std) or suspended (tokio)
RequestGuard(th) ==
    /\ At(th, "lock")
    /\ ~thread[th].waiting
    /\ thread' = [thread EXCEPT ![th].waiting = TRUE]
    /\ guard' = [guard EXCEPT ![Cur(th).guard].queue = Append(@, th)]
    /\ UNCHANGED appVars

\* tokio::sync::Mutex: the free guard goes to the first waiter
ObtainTokio(th) ==
    /\ thread[th].waiting
    /\ Cur(th).guard \in TokioGuards
    /\ guard[Cur(th).guard].holder = NoHolder
    /\ Head(guard[Cur(th).guard].queue) = th
    /\ After(th, thread[th].pc + 1,
             [guard EXCEPT ![Cur(th).guard] = [holder |-> th, queue |-> Tail(@.queue)]])
    /\ UNCHANGED appVars

\* std::sync::Mutex: the free guard goes to any waiter
ObtainStd(th) ==
    /\ thread[th].waiting
    /\ Cur(th).guard \in StdGuards
    /\ guard[Cur(th).guard].holder = NoHolder
    /\ After(th, thread[th].pc + 1,
             [guard EXCEPT ![Cur(th).guard] =
                 [holder |-> th, queue |-> SelectSeq(@.queue, LAMBDA x : x # th)]])
    /\ UNCHANGED appVars

ReleaseGuard(th) ==
    /\ At(th, "unlock")
    /\ Holds(th, Cur(th).guard)
    /\ After(th, thread[th].pc + 1, [guard EXCEPT ![Cur(th).guard].holder = NoHolder])
    /\ UNCHANGED appVars

\* the backend answers, or the request fails and `?` returns the error
Respond(th, ok) ==
    /\ At(th, "http")
    /\ After(th, IF ok THEN thread[th].pc + 1 ELSE Len(Program(thread[th].cmd)) + 1, guard)
    /\ UNCHANGED appVars

Branch(th, taken) ==
    /\ At(th, "skip")
    /\ After(th, IF taken THEN thread[th].pc + 1 ELSE thread[th].pc + 1 + Cur(th).skip, guard)
    /\ UNCHANGED appVars

ReturnEarly(th) ==
    /\ At(th, "return")
    /\ After(th, Len(Program(thread[th].cmd)) + 1, guard)
    /\ UNCHANGED appVars

\* the steps a thread takes by itself once it is scheduled
Proceed(th) ==
    \/ RequestGuard(th)
    \/ ReleaseGuard(th)
    \/ \E taken \in BOOLEAN : Branch(th, taken)
    \/ ReturnEarly(th)

NextLock ==
    \E th \in Threads :
        \/ \E cmd \in CommandNames[th] : InvokeCommand(th, cmd)
        \/ Proceed(th)
        \/ ObtainTokio(th)
        \/ ObtainStd(th)
        \/ \E ok \in BOOLEAN : Respond(th, ok)

\* Scheduling: a runnable thread runs, a tokio waiter at the head of the
\* queue of a free guard gets it, and a std waiter gets a guard that is
\* released again and again.  Nothing is assumed about the network: a
\* request may stay unanswered for ever.
LockSpec ==
    /\ Init
    /\ [][NextLock]_vars
    /\ \A th \in Threads :
          WF_vars(Proceed(th)) /\ WF_vars(ObtainTokio(th)) /\ SF_vars(ObtainStd(th))

\* C40: no interleaving of sync, study, status/cancel and watcher
\* activity deadlocks: a thread never holds the repository guard while it
\* is in a network call or waits for the engine or status guard, and every
\* thread that requests a guard eventually obtains it.
RepositoryHeldAlone ==
    \A th \in Threads :
        (At(th, "http") \/ WaitsFor(th, "engine") \/ WaitsFor(th, "status"))
            => ~Holds(th, "repository")

====
